---------------------------- MODULE Spec2Model ----------------------------
(***************************************************************************)
(* Verification model of the nof1 matching platform.                       *)
(*                                                                         *)
(*   Part 1  full_pipeline (app.py): search, confirmation fan-out over a   *)
(*           thread pool, batch deadline, score blending, sort, website    *)
(*           filter, trim, response.                                       *)
(*   Part 2  MatchingEngine.score (app.py).                                *)
(*   Part 3  ConfirmationEngine.confirm_match and ValidationEngine         *)
(*           (confirmation_engine.py, validation_engine.py).               *)
(*   Part 4  WebsiteValidator.validate_company_website                     *)
(*           (website_validator.py).                                       *)
(*                                                                         *)
(* Numbers: every score, confidence and weight of the program is a float   *)
(* in the source; here it is an integer number of thousandths (0.49 is     *)
(* 490, 1.0 is 1000), and a product of two such numbers is divided by      *)
(* 1000 again.                                                             *)
(***************************************************************************)
EXTENDS Integers, Sequences, FiniteSets, TLC

VARIABLES
    \* ---- Part 1: full_pipeline ----
    pc,                    \* position of the request handler
    top_k,                 \* requested number of companies
    request,               \* the request, and what the search returns for it
    chatgpt_available,     \* "chatgpt" in data_source_manager.sources
    search_results,        \* candidates after the website filter, sorted
    companies_to_confirm,  \* candidates handed to the confirmation pool
    worker,                \* thread-pool state of each confirmation task
    fut,                   \* asyncio future of each confirmation task
    task_result,           \* what each worker returned
    confirmation_results,  \* gathered results, one per candidate
    combined_results,      \* candidates blended with their confirmation
    companies_filtered,    \* how many the website check removed
    response,              \* what the request returned
    clock,                 \* seconds since the confirmation fan-out started
    started_at,            \* when each confirmation task began to run
    batch_timed_out,       \* the batch deadline has expired
    \* ---- Part 2: MatchingEngine ----
    weights,               \* MatchingEngine.weights (config/weights.yaml)
    score_call,            \* arguments of the last MatchingEngine.score call
    score_result,          \* what that call returned
    weights_call,          \* last PUT /api/weights: its body and its reply
    \* ---- Part 3: ConfirmationEngine and ValidationEngine ----
    confirm_pc,            \* "ready", "confirmed" or "validated"
    confirm_call,          \* arguments of confirm_match and validate
    confirmation_result,   \* the ConfirmationResult
    validation_result,     \* the ValidationResult
    hash_seed,             \* string hash seed of the interpreter process
    swot_runs,             \* the lists of each validate run on confirm_call
    \* ---- Part 4: WebsiteValidator ----
    web_pc,                \* "ready" or "done"
    web_call,              \* arguments and environment of the validation
    web_result,            \* the WebsiteValidationResult
    web_calls,             \* analysis methods that were handed the content
    \* ---- Part 5: other entry points ----
    single_call,           \* a direct call of confirm_single_company
    mwc_call,              \* one candidate of /api/match-with-confirmation
    crawl,                 \* the loop of _deep_crawl_website, step by step
    dedup_call             \* a call of _deduplicate_companies

pipeVars == << pc, top_k, request, chatgpt_available, search_results,
               companies_to_confirm, worker, fut, task_result,
               confirmation_results, combined_results, companies_filtered,
               response, clock, started_at, batch_timed_out >>

scoreVars == << weights, score_call, score_result, weights_call >>

confirmVars == << hash_seed, swot_runs, confirm_pc, confirm_call, confirmation_result,
                  validation_result >>

webVars == << web_pc, web_call, web_result, web_calls >>

auxVars == << single_call, mwc_call, crawl, dedup_call >>

nonPipeVars == << scoreVars, confirmVars, webVars, auxVars >>

vars == << pipeVars, scoreVars, confirmVars, webVars, auxVars >>

(***************************************************************************)
(* Generic helpers                                                         *)
(***************************************************************************)
Min(a, b) == IF a <= b THEN a ELSE b
Max(a, b) == IF a >= b THEN a ELSE b

RECURSIVE SumSeq(_)
SumSeq(s) == IF s = << >> THEN 0 ELSE Head(s) + SumSeq(Tail(s))

\* The rank when elements with equal keys come out in reverse order, as
\* after an ascending sort followed by reverse().
Rank_ties_reversed(K, j) ==
    1 + Cardinality({k \in 1..Len(K) : K[k] > K[j] \/ (K[k] = K[j] /\ k > j)})

\* Python's list.sort(key=..., reverse=True): descending by key, and elements
\* with equal keys keep their original relative order.  K[i] is the key of
\* s[i].
Rank(K, j) ==
    1 + Cardinality({k \in 1..Len(K) : K[k] > K[j] \/ (K[k] = K[j] /\ k < j)})

StableSortDesc(s, K) ==
    [p \in 1..Len(s) |-> s[CHOOSE j \in 1..Len(s) : Rank(K, j) = p]]

\* s[:n]
Prefix(s, n) == SubSeq(s, 1, Min(n, Len(s)))

(***************************************************************************)
(* Part 1.  full_pipeline                                                  *)
(***************************************************************************)

\* ---- bounds ----
MaxTopK == 2

\* ---- program constants ----
max_workers == 10
PER_COMPANY_TIMEOUT == 90
BATCH_SECONDS_PER_COMPANY == 60
BATCH_TIMEOUT_MIN == 60
BATCH_TIMEOUT_MAX == 600
MIN_TEXT_CHARS == 50

\* What is_valid_website_url and quick_validate_website_url read of a URL
\* string: its stripped length, whether its lower-cased text is one of the
\* "none"/"null"/"n/a" tokens, whether the host part contains a dot, the
\* length of the last and of the first dot-separated label, and whether the
\* first page served at that URL has real content.
WebsiteFacts ==
    [w \in {"", "n/a", "abc", "localhost", "ok.com", "tie.com", "low.com",
            "void.com", "x.y"} |->
        CASE w = ""          -> [len |-> 0, token |-> TRUE,  dot |-> FALSE, tld |-> 0, first |-> 0, content |-> FALSE]
          [] w = "n/a"       -> [len |-> 3, token |-> TRUE,  dot |-> FALSE, tld |-> 3, first |-> 1, content |-> FALSE]
          [] w = "abc"       -> [len |-> 3, token |-> FALSE, dot |-> FALSE, tld |-> 3, first |-> 3, content |-> FALSE]
          [] w = "localhost" -> [len |-> 9, token |-> FALSE, dot |-> FALSE, tld |-> 9, first |-> 9, content |-> TRUE]
          [] w = "x.y"       -> [len |-> 3, token |-> FALSE, dot |-> TRUE,  tld |-> 1, first |-> 1, content |-> FALSE]
          [] w = "void.com"  -> [len |-> 8, token |-> FALSE, dot |-> TRUE,  tld |-> 3, first |-> 4, content |-> FALSE]
          [] OTHER           -> [len |-> 6, token |-> FALSE, dot |-> TRUE,  tld |-> 3, first |-> 2, content |-> TRUE]]

is_valid_website_url(w) ==
    LET f == WebsiteFacts[w] IN
    IF f.len = 0 THEN FALSE
    ELSE IF f.token THEN FALSE
    ELSE IF f.len < 4 THEN FALSE
    ELSE IF ~f.dot THEN FALSE
    ELSE IF f.tld < 2 THEN FALSE
    ELSE IF f.first = 0 THEN FALSE
    ELSE TRUE

\* The weaker test of lines 2392, 2537, 2826: non-empty and at least 4 chars.
HasWebsiteText(w) == WebsiteFacts[w].len >= 4

quick_validate_website_url(w) ==
    LET f == WebsiteFacts[w] IN
    IF f.len = 0 THEN FALSE
    ELSE IF f.token THEN FALSE
    ELSE IF f.len < 4 THEN FALSE
    ELSE IF ~f.dot \/ f.tld < 2 THEN FALSE
    ELSE f.content

\* The companies a search can find.  The theme search (or the database
\* fallback) returns some of them.
Pool ==
    << [name |-> "alpha",   relevance_score |-> 600, website |-> "ok.com"],
       [name |-> "bravo",   relevance_score |-> 600, website |-> "tie.com"],
       [name |-> "charlie", relevance_score |-> 900, website |-> "void.com"],
       [name |-> "delta",   relevance_score |-> 950, website |-> "n/a"],
       [name |-> "echo",    relevance_score |-> 200, website |-> "low.com"] >>

\* The sub-sequences of Pool with at most n elements.
RECURSIVE SubSeqsOf(_)
SubSeqsOf(s) ==
    IF s = << >> THEN { << >> }
    ELSE LET rest == SubSeqsOf(Tail(s)) IN
         rest \cup { << Head(s) >> \o r : r \in rest }

SearchOutputs(n) == { s \in SubSeqsOf(Pool) : Len(s) <= n }

\* ---- confirm_single_company ----
NoConfirmation ==
    [kind |-> "none", is_confirmed |-> FALSE, confidence_score |-> 0,
     recommendation |-> "", reasoning |-> ""]

\* What the generative provider can answer for one company.
ProviderReplies ==
    { [kind |-> "json", confidence_score |-> -500, is_confirmed |-> FALSE, recommendation |-> "reject"],
      [kind |-> "json", confidence_score |-> 900,  is_confirmed |-> TRUE,  recommendation |-> "proceed"],
      [kind |-> "json", confidence_score |-> 1500, is_confirmed |-> TRUE,  recommendation |-> ""],
      [kind |-> "bad_json", confidence_score |-> 0, is_confirmed |-> FALSE, recommendation |-> ""],
      [kind |-> "error",    confidence_score |-> 0, is_confirmed |-> FALSE, recommendation |-> ""] }

ENABLE_ENRICHMENT == FALSE

\* Lines 3464-3523.  With enrichment disabled there are no verified facts, so
\* of the calibration only the "no external data" cap can apply.
CalibrateConfidence(original_confidence) ==
    LET has_external_verification == ENABLE_ENRICHMENT IN
    IF has_external_verification
    THEN original_confidence
    ELSE IF original_confidence > 800 THEN 750 ELSE original_confidence

confirm_single_company(company_name, reply) ==
    IF company_name = ""
    THEN [kind |-> "dict", is_confirmed |-> FALSE, confidence_score |-> 0,
          recommendation |-> "reconsider", reasoning |-> "Invalid company name"]
    ELSE IF reply.kind = "bad_json"
    THEN [kind |-> "dict", is_confirmed |-> FALSE, confidence_score |-> 300,
          recommendation |-> "reconsider",
          reasoning |-> "Unable to complete full analysis"]
    ELSE IF reply.kind = "error"
    \* The provider call raised before line 3427 ran.  "import json" there
    \* makes json a local name of the function, so evaluating the clause
    \* "except json.JSONDecodeError" raises UnboundLocalError, which leaves
    \* the function.
    THEN [kind |-> "raised", is_confirmed |-> FALSE, confidence_score |-> 0,
          recommendation |-> "", reasoning |-> "UnboundLocalError"]
    ELSE IF reply.recommendation = ""
    \* result['recommendation'] raised KeyError
    THEN [kind |-> "dict", is_confirmed |-> FALSE, confidence_score |-> 200,
          recommendation |-> "reconsider",
          reasoning |-> "Confirmation analysis failed"]
    ELSE [kind |-> "dict", is_confirmed |-> reply.is_confirmed,
          confidence_score |-> CalibrateConfidence(reply.confidence_score),
          recommendation |-> reply.recommendation,
          reasoning |-> "provider reasoning"]

\* ---- run_confirmation_sync: the body of one pool task ----
WorkerEvents == { "returned", "timeout", "exception" }

\* run_confirmation_sync without its "except asyncio.TimeoutError" clause: the
\* timeout falls into the generic handler.
run_confirmation_sync_no_timeout_clause(company_name, event, reply) ==
    IF event \in {"timeout", "exception"}
    THEN [kind |-> "dict", is_confirmed |-> FALSE, confidence_score |-> 500,
          recommendation |-> "reconsider",
          reasoning |-> "Confirmation error"]
    ELSE confirm_single_company(company_name, reply)

run_confirmation_sync(company_name, event, reply) ==
    IF event = "timeout"
    THEN [kind |-> "dict", is_confirmed |-> FALSE, confidence_score |-> 500,
          recommendation |-> "reconsider",
          reasoning |-> "Confirmation timed out after 90 seconds"]
    ELSE IF event = "exception"
    THEN [kind |-> "dict", is_confirmed |-> FALSE, confidence_score |-> 500,
          recommendation |-> "reconsider",
          reasoning |-> "Confirmation error"]
    ELSE LET result == confirm_single_company(company_name, reply) IN
         IF result.kind = "raised"
         THEN [kind |-> "dict", is_confirmed |-> FALSE, confidence_score |-> 500,
               recommendation |-> "reconsider",
               reasoning |-> "Confirmation error"]
         ELSE result

\* A task that is left running when its deadline fires.
Outcome_timeout_keeps_running(event) ==
    CASE event = "timeout"   -> "running"
      [] event = "exception" -> "failed"
      [] OTHER               -> "completed"

\* How a worker ended: with the provider's result, by the 90 s deadline, or
\* by an exception.
Outcome(event) ==
    CASE event = "timeout"   -> "timed_out"
      [] event = "exception" -> "failed"
      [] OTHER               -> "completed"

Idx == 1..Len(companies_to_confirm)

NoRequest ==
    [top_k |-> 0, company_type |-> "", company_size |-> "", raw_text_len |-> 0,
     search_found |-> 0]

PipelineInit ==
    /\ pc = "idle"
    /\ top_k = 0
    /\ request = NoRequest
    /\ chatgpt_available \in BOOLEAN
    /\ search_results = << >>
    /\ companies_to_confirm = << >>
    /\ worker = << >>
    /\ fut = << >>
    /\ task_result = << >>
    /\ confirmation_results = << >>
    /\ combined_results = << >>
    /\ companies_filtered = 0
    /\ response = [status |-> 0, results |-> << >>, companies_evaluated |-> 0,
                   error |-> ""]
    /\ clock = 0
    /\ started_at = << >>
    /\ batch_timed_out = FALSE

\* ---- the request ----
Requests ==
    [top_k : 0..MaxTopK,
     company_type : {"for-profit", "consulting"},
     company_size : {"small", "huge"},
     raw_text_len : {17, 60}]

\* Lines 2221-2254: the first input check that fails, or "" when all pass.
InputError(req) ==
    IF req.top_k < 1 \/ req.top_k > 100
    THEN "top_k must be between 1 and 100"
    ELSE IF req.company_type \notin {"for-profit", "academic-nonprofit"}
    THEN "Invalid company_type"
    ELSE IF req.company_size \notin {"all", "small", "large"}
    THEN "Invalid company_size"
    ELSE IF req.raw_text_len < MIN_TEXT_CHARS
    THEN "Insufficient solicitation text provided"
    ELSE ""

\* int(top_k * 1.5), capped at 200
initial_request_count(k) == Min((k * 3) \div 2, 200)

RelevanceKeys(s) == [i \in 1..Len(s) |-> s[i].relevance_score]

WebsiteFilter(s) == SelectSeq(s, LAMBDA c : is_valid_website_url(c.website))

ConfirmationFilter(s) == SelectSeq(s, LAMBDA c : HasWebsiteText(c.website))

EmptyResponse ==
    [status |-> 200, results |-> << >>, companies_evaluated |-> 0, error |-> ""]

\* Lines 2212-2400 and 2474-2487: validate the input, search, drop companies
\* without a valid website, sort by relevance and submit one confirmation
\* task per company.  An HTTPException raised inside the handler's try block
\* is caught by its "except Exception" and re-raised with status 500.
Request ==
    /\ UNCHANGED nonPipeVars
    /\ pc = "idle"
    /\ \E req \in Requests :
       \E found \in SearchOutputs(initial_request_count(req.top_k)) :
         /\ request' = [top_k |-> req.top_k, company_type |-> req.company_type,
                        company_size |-> req.company_size,
                        raw_text_len |-> req.raw_text_len,
                        search_found |-> Len(found)]
         /\ IF InputError(req) /= ""
            THEN /\ pc' = "rejected"
                 /\ response' = [status |-> 500, results |-> << >>,
                                 companies_evaluated |-> 0,
                                 error |-> InputError(req)]
                 /\ top_k' = req.top_k
                 /\ UNCHANGED << search_results, companies_to_confirm, worker,
                                 fut, task_result, confirmation_results,
                                 started_at >>
            ELSE LET filtered == WebsiteFilter(found)
                     sorted   == StableSortDesc(filtered, RelevanceKeys(filtered))
                     toconf   == ConfirmationFilter(sorted)
                     n        == Len(toconf)
                 IN
                 /\ top_k' = req.top_k
                 /\ IF filtered = << >>
                    THEN /\ pc' = "returned"
                         /\ response' = EmptyResponse
                         /\ UNCHANGED << search_results, companies_to_confirm,
                                         worker, fut, task_result,
                                         confirmation_results, started_at >>
                    ELSE /\ search_results' = sorted
                         /\ companies_to_confirm' = toconf
                         /\ task_result' = [i \in 1..n |-> NoConfirmation]
                         /\ started_at' = [i \in 1..n |-> 0]
                         /\ UNCHANGED response
                         /\ IF chatgpt_available
                            THEN /\ worker' = [i \in 1..n |-> "queued"]
                                 /\ fut' = [i \in 1..n |-> "pending"]
                                 /\ pc' = "confirming"
                                 /\ UNCHANGED confirmation_results
                            ELSE /\ worker' = [i \in 1..n |-> "unused"]
                                 /\ fut' = [i \in 1..n |-> "unused"]
                                 /\ confirmation_results' =
                                        [i \in 1..n |-> NoConfirmation]
                                 /\ pc' = "gathered"
    /\ UNCHANGED << chatgpt_available, combined_results, companies_filtered,
                    clock, batch_timed_out >>

Running == { i \in Idx : worker[i] = "running" }

\* A pool that starts every submitted task at once.
StartWorker_unbounded(i) ==
    /\ UNCHANGED nonPipeVars
    /\ pc = "confirming"
    /\ worker[i] = "queued"
    /\ \A j \in Idx : j < i => worker[j] /= "queued"
    /\ worker' = [worker EXCEPT ![i] = "running"]
    /\ started_at' = [started_at EXCEPT ![i] = clock]
    /\ UNCHANGED << pc, top_k, request, chatgpt_available, search_results,
                    companies_to_confirm, fut, task_result,
                    confirmation_results, combined_results,
                    companies_filtered, response, clock, batch_timed_out >>

\* ThreadPoolExecutor(max_workers=10): the oldest queued task starts as soon
\* as fewer than max_workers are running.
StartWorker(i) ==
    /\ UNCHANGED nonPipeVars
    /\ pc = "confirming"
    /\ worker[i] = "queued"
    /\ \A j \in Idx : j < i => worker[j] /= "queued"
    /\ Cardinality(Running) < max_workers
    /\ worker' = [worker EXCEPT ![i] = "running"]
    /\ started_at' = [started_at EXCEPT ![i] = clock]
    /\ UNCHANGED << pc, top_k, request, chatgpt_available, search_results,
                    companies_to_confirm, fut, task_result,
                    confirmation_results, combined_results,
                    companies_filtered, response, clock, batch_timed_out >>

Startable ==
    /\ \E i \in Idx : worker[i] = "queued"
    /\ Cardinality(Running) < max_workers

\* Lines 2418-2472: the task ends with the provider's result, with the
\* timed-out placeholder once 90 s have passed, or with the error placeholder;
\* in each case the function returns a dict, so the future gets a result.
\* events and replies are what the provider can do in the run considered.
WorkerReturnOn(i, events, replies) ==
    /\ UNCHANGED nonPipeVars
    /\ worker[i] = "running"
    /\ \E event \in events, reply \in replies :
         /\ event = "timeout" => clock - started_at[i] >= PER_COMPANY_TIMEOUT
         /\ event /= "timeout" => clock - started_at[i] <= PER_COMPANY_TIMEOUT
         /\ event /= "returned" => reply.kind = "error"
         \* a failing provider call leaves the coroutine as an exception
         /\ event = "returned" => reply.kind /= "error"
         /\ worker' = [worker EXCEPT ![i] = Outcome(event)]
         /\ task_result' = [task_result EXCEPT ![i] =
                run_confirmation_sync(companies_to_confirm[i].name, event, reply)]
    /\ fut' = [fut EXCEPT ![i] = IF fut[i] = "pending" THEN "finished" ELSE fut[i]]
    /\ UNCHANGED << pc, top_k, request, chatgpt_available, search_results,
                    companies_to_confirm, confirmation_results,
                    combined_results, companies_filtered, response, clock,
                    started_at, batch_timed_out >>

WorkerReturn(i) == WorkerReturnOn(i, WorkerEvents, ProviderReplies)

\* timeout_seconds = min(600, max(60, len(confirmation_tasks) * 60))
timeout_seconds ==
    Min(BATCH_TIMEOUT_MAX,
        Max(BATCH_TIMEOUT_MIN, Len(companies_to_confirm) * BATCH_SECONDS_PER_COMPANY))

\* Half a minute passes.  Time does not pass while a task could start, while a
\* running task is past its own deadline, or once the batch deadline is due.
\* After the batch deadline the executor's shutdown(wait=True) of line 2475
\* still waits for the running threads.
Tick ==
    /\ UNCHANGED nonPipeVars
    /\ \/ /\ pc = "confirming"
          /\ \E i \in Idx : fut[i] = "pending"
          /\ ~Startable
          /\ clock < timeout_seconds
       \/ /\ pc = "aborted"
          /\ Running /= {}
    /\ \A i \in Running : clock - started_at[i] < PER_COMPANY_TIMEOUT
    /\ clock' = clock + 30
    /\ UNCHANGED << pc, top_k, request, chatgpt_available, search_results,
                    companies_to_confirm, worker, fut, task_result,
                    confirmation_results, combined_results,
                    companies_filtered, response, started_at, batch_timed_out >>

\* Lines 2493-2497: asyncio.gather returns the task results in task order.
Gather ==
    /\ UNCHANGED nonPipeVars
    /\ pc = "confirming"
    /\ \A i \in Idx : fut[i] = "finished"
    /\ confirmation_results' = [i \in Idx |-> task_result[i]]
    /\ pc' = "gathered"
    /\ UNCHANGED << top_k, request, chatgpt_available, search_results,
                    companies_to_confirm, worker, fut, task_result,
                    combined_results, companies_filtered, response, clock,
                    started_at, batch_timed_out >>

\* Lines 2498-2511.  asyncio.wait_for cancels the gather on timeout, and a
\* cancelled gather cancels every child future that is not done.  A cancelled
\* future is done(), and awaiting it raises CancelledError, which is a
\* BaseException (the code needs Python >= 3.9: it calls asyncio.to_thread):
\* neither "except Exception" of line 2506 nor that of line 2918 catches it.
\* The "else" branch that appends None needs a task that is not done.
\* The list built so far holds the results of the tasks before the first
\* cancelled one.
PartialResults(f) ==
    [i \in DOMAIN f |->
        IF f[i] = "finished" THEN task_result[i] ELSE NoConfirmation]

BatchTimeout ==
    /\ UNCHANGED nonPipeVars
    /\ pc = "confirming"
    /\ clock >= timeout_seconds
    /\ \E i \in Idx : fut[i] = "pending"
    /\ batch_timed_out' = TRUE
    /\ LET cancelled == [i \in Idx |->
                            IF fut[i] = "pending" THEN "cancelled" ELSE fut[i]]
       IN
       /\ fut' = cancelled
       /\ worker' = [i \in Idx |->
                        IF worker[i] = "queued" THEN "cancelled" ELSE worker[i]]
       /\ IF \E i \in Idx : cancelled[i] = "cancelled"
          THEN /\ pc' = "aborted"
               /\ response' = [status |-> 0, results |-> << >>,
                               companies_evaluated |-> 0,
                               error |-> "CancelledError"]
               /\ LET first == CHOOSE i \in Idx :
                                  /\ cancelled[i] = "cancelled"
                                  /\ \A j \in 1..(i - 1) :
                                        cancelled[j] /= "cancelled"
                  IN confirmation_results' =
                         [i \in 1..(first - 1) |-> task_result[i]]
          ELSE /\ pc' = "gathered"
               /\ confirmation_results' = PartialResults(cancelled)
               /\ UNCHANGED response
    /\ UNCHANGED << top_k, request, chatgpt_available, search_results,
                    companies_to_confirm, task_result, combined_results,
                    companies_filtered, clock, started_at >>

\* Lines 2546-2568: blend 40% search relevance with 60% confirmation
\* confidence, or keep the search relevance when there is no confirmation.
CombineOne(company, confirmation) ==
    LET conf == IF confirmation.kind = "exception" THEN NoConfirmation
                ELSE confirmation
        search_score == company.relevance_score
    IN
    IF conf.kind = "dict"
    THEN [company |-> company, confirmation |-> conf,
          final_score |-> (search_score * 400 + conf.confidence_score * 600) \div 1000,
          search_score |-> search_score,
          is_confirmed |-> conf.is_confirmed,
          recommendation |-> conf.recommendation]
    ELSE [company |-> company, confirmation |-> conf,
          final_score |-> search_score,
          search_score |-> search_score,
          is_confirmed |-> FALSE,
          recommendation |-> "review"]

FinalScoreKeys(s) == [i \in 1..Len(s) |-> s[i].final_score]

\* zip(companies_to_confirm, confirmation_results), skipping companies
\* without website text.
CombineAll(companies, confirmations) ==
    LET n == Min(Len(companies), Len(confirmations))
        zipped == [i \in 1..n |-> CombineOne(companies[i], confirmations[i])]
    IN SelectSeq(zipped, LAMBDA r : HasWebsiteText(r.company.website))

\* Lines 2530-2572: combine, then re-order by final score.
Combine ==
    /\ UNCHANGED nonPipeVars
    /\ pc = "gathered"
    /\ LET combined == CombineAll(companies_to_confirm, confirmation_results)
       IN combined_results' = StableSortDesc(combined, FinalScoreKeys(combined))
    /\ pc' = "combined"
    /\ UNCHANGED << top_k, request, chatgpt_available, search_results,
                    companies_to_confirm, worker, fut, task_result,
                    confirmation_results, companies_filtered, response,
                    clock, started_at, batch_timed_out >>

\* The URL check without the first-page content test.
UrlHasContent_format_only(r) == is_valid_website_url(r.company.website)

UrlHasContent(r) ==
    /\ is_valid_website_url(r.company.website)
    /\ quick_validate_website_url(r.company.website)

\* Lines 2574-2640: keep the companies whose website is valid and whose first
\* page has content, then trim to the requested count.
ValidateUrls ==
    /\ UNCHANGED nonPipeVars
    /\ pc = "combined"
    /\ LET validated_results == SelectSeq(combined_results, UrlHasContent)
           actual_count == Len(validated_results)
       IN
       /\ companies_filtered' = Len(combined_results) - actual_count
       /\ combined_results' =
              IF actual_count > top_k THEN Prefix(validated_results, top_k)
              ELSE validated_results
    /\ pc' = "validated"
    /\ UNCHANGED << top_k, request, chatgpt_available, search_results,
                    companies_to_confirm, worker, fut, task_result,
                    confirmation_results, response, clock, started_at,
                    batch_timed_out >>

\* Lines 2699-2773: one entry of final_results.
FormatResult(result) ==
    LET confirmation == result.confirmation
        has == confirmation.kind = "dict"
    IN
    [company_name |-> result.company.name,
     match_score |-> result.final_score,
     confidence_percentage |->
         IF has THEN confirmation.confidence_score \div 10 ELSE 70,
     validation_level |->
         IF result.final_score > 700 THEN "recommended" ELSE "borderline",
     risk_level |-> IF result.is_confirmed THEN "low" ELSE "medium",
     decision_rationale |->
         IF has THEN confirmation.reasoning
         ELSE "Identified through theme-based search",
     confirmation_status |->
         IF result.is_confirmed THEN "confirmed" ELSE "discovered",
     has_confirmation_result |-> has,
     website |-> result.company.website]

\* Lines 2646-2916: format the results and run the closing website filters.
FinalResults(combined) ==
    LET valid == SelectSeq(combined,
                           LAMBDA r : is_valid_website_url(r.company.website))
        final_results == [i \in 1..Len(valid) |-> FormatResult(valid[i])]
        website_filtered_results ==
            SelectSeq(final_results, LAMBDA r : is_valid_website_url(r.website))
        absolutely_final_results ==
            SelectSeq(website_filtered_results,
                      LAMBDA r : HasWebsiteText(r.website))
        filtered_for_response ==
            SelectSeq(absolutely_final_results,
                      LAMBDA r : HasWebsiteText(r.website)
                                 /\ ~WebsiteFacts[r.website].token)
    IN SelectSeq(filtered_for_response,
                 LAMBDA r : HasWebsiteText(r.website)
                            /\ ~WebsiteFacts[r.website].token)

Respond ==
    /\ UNCHANGED nonPipeVars
    /\ pc = "validated"
    /\ response' = [status |-> 200,
                    results |-> FinalResults(combined_results),
                    companies_evaluated |-> Len(search_results),
                    error |-> ""]
    /\ pc' = "returned"
    /\ UNCHANGED << top_k, request, chatgpt_available, search_results,
                    companies_to_confirm, worker, fut, task_result,
                    confirmation_results, combined_results,
                    companies_filtered, clock, started_at, batch_timed_out >>


(***************************************************************************)
(* Part 2.  MatchingEngine.score                                           *)
(*                                                                         *)
(* Weights and factor scores are thousandths, so the weighted sum and the  *)
(* returned total are millionths (0.49 is 490000).                         *)
(***************************************************************************)
WeightKeys ==
    {"naics", "capabilities", "past_performance", "size_status", "clearance",
     "location", "keywords"}

DEFAULT_WEIGHTS ==
    [k \in WeightKeys |->
        CASE k = "naics"            -> 200
          [] k = "capabilities"     -> 250
          [] k = "past_performance" -> 200
          [] k = "size_status"      -> 100
          [] k = "clearance"        -> 100
          [] k = "location"         -> 50
          [] k = "keywords"         -> 100]

\* What config/weights.yaml can hold: put_weights stores any numeric value
\* under any subset of the known keys.
StoredWeights ==
    { DEFAULT_WEIGHTS,
      [k \in WeightKeys |-> 2 * DEFAULT_WEIGHTS[k]],
      [k \in WeightKeys |-> 1000],
      [k \in WeightKeys |-> IF k = "clearance" THEN 3000 ELSE 0],
      [k \in WeightKeys |-> IF k = "naics" THEN -500 ELSE 100],
      [k \in {"naics", "capabilities"} |-> 500] }

hard_caps == [set_aside |-> 490000, clearance |-> 490000]

\* str.strip().lower() on the strings the model uses; None and "" give "".
_norm(s) ==
    CASE s = "Secret"          -> "secret"
      [] s = "SECRET "         -> "secret"
      [] s = "Top Secret"      -> "top secret"
      [] s = "TS/SCI"          -> "ts/sci"
      [] s = "Small Business"  -> "small business"
      [] s = "SB"              -> "sb"
      [] s = "8(a)"            -> "8(a)"
      [] s = "Small"           -> "small"
      [] s = "Large"           -> "large"
      [] s = " "               -> ""
      [] OTHER                 -> s

\* [_norm(x) for x in lst if x]
_list_norm(lst) == { _norm(x) : x \in { y \in lst : y /= "" } }

\* s.replace("/", " ").replace("-", " ")
ReplaceSeparators(s) == IF s = "ts/sci" THEN "ts sci" ELSE s

\* Python's "a in b" for the normalised clearance strings.
IsSubstring(a, b) ==
    \/ a = b
    \/ a = ""
    \/ << a, b >> \in { << "secret", "top secret" >>, << "ts", "ts sci" >> }

clearance_hierarchy ==
    [level \in {"public trust", "confidential", "secret", "top secret", "ts",
                "ts/sci"} |->
        CASE level = "public trust" -> {"public trust"}
          [] level = "confidential" -> {"confidential", "public trust"}
          [] level = "secret"       -> {"secret", "confidential", "public trust"}
          [] level = "top secret"   -> {"top secret", "ts", "ts/sci", "secret",
                                        "confidential"}
          [] OTHER                  -> {"top secret", "ts", "ts/sci"}]

_is_small_business(comp) ==
    IF ~comp.employees_known
    THEN _norm(comp.size) \in {"small", "micro"}
    ELSE comp.employees <= 500

_score_size_status(sol, comp) ==
    LET req_ss == _list_norm(sol.set_asides)
        is_small == _is_small_business(comp)
    IN
    IF req_ss = {}
    THEN IF comp.employees_known \/ comp.size /= "" THEN 500 ELSE 0
    ELSE IF "small business" \in req_ss \/ "sb" \in req_ss
    THEN IF is_small THEN 1000 ELSE 0
    ELSE IF is_small THEN 1000 ELSE 500

_score_clearance(sol, comp) ==
    LET req == _norm(sol.security_clearance)
        clrs == _list_norm(comp.security_clearances)
        req_normalized == ReplaceSeparators(req)
    IN
    IF req = "" THEN 500
    ELSE IF req \in clrs THEN 1000
    ELSE IF \E level \in DOMAIN clearance_hierarchy :
               /\ IsSubstring(level, req_normalized)
               /\ \E equiv \in clearance_hierarchy[level] :
                     \E c \in clrs : IsSubstring(equiv, ReplaceSeparators(c))
    THEN 1000
    ELSE 0

_meets_set_aside(comp, required) ==
    LET comp_ss == _list_norm(comp.socioeconomic_status)
        req == _list_norm(required)
    IN (comp_ss \cap req /= {}) \/ req = {}

_meets_clearance(comp, required) ==
    IF required = "" THEN TRUE
    ELSE _norm(required) \in _list_norm(comp.security_clearances)

\* The seven factor scores of one call.  The NAICS, capability,
\* past-performance, location and keyword scores come from text matching and
\* are inputs here (sol.text_scores); size and clearance are computed.
FactorScores(sol, comp) ==
    [k \in WeightKeys |->
        CASE k = "size_status" -> _score_size_status(sol, comp)
          [] k = "clearance"   -> _score_clearance(sol, comp)
          [] OTHER             -> sol.text_scores[k]]

RECURSIVE SumOver(_, _)
SumOver(S, f) ==
    IF S = {} THEN 0
    ELSE LET k == CHOOSE x \in S : TRUE IN f[k] + SumOver(S \ {k}, f)

\* total = sum of self.weights[k] * s_k, before any cap
WeightedTotal(w, sol, comp) ==
    LET s == FactorScores(sol, comp) IN
    SumOver(WeightKeys, [k \in WeightKeys |-> w[k] * s[k]])

\* max(0.0, min(1.0, total))
ClampUnit(total) == Max(0, Min(1000000, total))

\* sol.get("raw_text", "")[:2000] in _score_past_perf: a missing key gives
\* the default "", a key holding None gives None, and slicing None raises
\* TypeError.
RawTextSliced(sol) ==
    CASE sol.raw_text = "missing" -> [raised |-> "", text |-> ""]
      [] sol.raw_text = "None"    -> [raised |-> "TypeError", text |-> ""]
      [] OTHER                    -> [raised |-> "", text |-> sol.raw_text]

\* score with the caps applied as a floor (max in place of min).
score_cap_as_floor(w, sol, comp) ==
    IF RawTextSliced(sol).raised /= ""
    THEN [raised |-> RawTextSliced(sol).raised, total |-> 0]
    ELSE IF DOMAIN w /= WeightKeys
    THEN [raised |-> "KeyError", total |-> 0]
    ELSE
    LET total0 == WeightedTotal(w, sol, comp)
        total1 == IF ~_meets_set_aside(comp, sol.set_asides)
                  THEN Max(total0, hard_caps.set_aside) ELSE total0
        total2 == IF ~_meets_clearance(comp, sol.security_clearance)
                  THEN Max(total1, hard_caps.clearance) ELSE total1
    IN [raised |-> "", total |-> ClampUnit(total2)]

\* MatchingEngine.score: the factor scores are computed first, and
\* _score_past_perf raises for a raw_text of None; then self.weights[k]
\* raises KeyError for a stored weight file that lacks a key.
score(w, sol, comp) ==
    IF RawTextSliced(sol).raised /= ""
    THEN [raised |-> RawTextSliced(sol).raised, total |-> 0]
    ELSE IF DOMAIN w /= WeightKeys
    THEN [raised |-> "KeyError", total |-> 0]
    ELSE
    LET total0 == WeightedTotal(w, sol, comp)
        total1 == IF ~_meets_set_aside(comp, sol.set_asides)
                  THEN Min(total0, hard_caps.set_aside) ELSE total0
        total2 == IF ~_meets_clearance(comp, sol.security_clearance)
                  THEN Min(total1, hard_caps.clearance) ELSE total1
    IN [raised |-> "", total |-> ClampUnit(total2)]

TextScores ==
    { [k \in WeightKeys \ {"size_status", "clearance"} |->
          IF k = "capabilities" THEN c ELSE IF k \in high THEN 1000 ELSE 0] :
      c \in {0, 500, 1000},
      high \in { {}, {"naics"}, {"naics", "past_performance"},
                 {"naics", "past_performance", "location", "keywords"} } }

Solicitations ==
    [set_asides : { {}, {"Small Business"}, {"8(a)"}, {"SB"} },
     security_clearance : {"", " ", "Secret", "Top Secret"},
     raw_text : {"missing", "None", "text"},
     text_scores : TextScores]

Companies ==
    [employees_known : BOOLEAN,
     employees : {10, 501},
     size : {"", "Small"},
     socioeconomic_status : { {}, {"Small Business"}, {"8(a)"} },
     security_clearances : { {}, {"SECRET "}, {"TS/SCI"} }]

NoCall ==
    [called |-> FALSE,
     sol |-> [set_asides |-> {}, security_clearance |-> "", raw_text |-> "missing",
              text_scores |-> [k \in WeightKeys \ {"size_status", "clearance"} |-> 0]],
     comp |-> [employees_known |-> FALSE, employees |-> 10, size |-> "",
               socioeconomic_status |-> {}, security_clearances |-> {}]]

NoScore == [raised |-> "", total |-> 0]

\* ---- PUT /api/weights ----
\* A request body is a dictionary; each value is a number (in thousandths)
\* or something that is not a number.
Num(v) == [numeric |-> TRUE, v |-> v]

NotNum == [numeric |-> FALSE, v |-> 0]

PutBodies ==
    { [k \in WeightKeys |-> Num(1000)],
      [k \in WeightKeys |-> Num(IF k = "naics" THEN -500 ELSE 100)],
      [k \in {"naics", "capabilities"} |-> Num(500)],
      [k \in {} |-> Num(0)],
      [k \in {"naics", "price"} |-> Num(300)],
      [k \in {"price"} |-> Num(1000)],
      [k \in WeightKeys |-> IF k = "naics" THEN NotNum ELSE Num(100)],
      [k \in {"keywords"} |-> NotNum],
      [k \in {"naics", "price"} |-> IF k = "price" THEN NotNum ELSE Num(300)] }

\* load_weights after the file was written: an empty mapping is falsy and
\* gives the defaults.
load_weights(stored) == IF DOMAIN stored = {} THEN DEFAULT_WEIGHTS ELSE stored

\* put_weights without the test for unknown keys.
put_weights_any_key(current, new_weights, written) ==
    IF \E k \in DOMAIN new_weights : ~new_weights[k].numeric
    THEN [status |-> 400, detail |-> "must be numeric", weights |-> current]
    ELSE LET stored == IF written
                       THEN load_weights([k \in DOMAIN new_weights |-> new_weights[k].v])
                       ELSE current
         IN [status |-> 200, detail |-> "ok", weights |-> stored]

\* put_weights: the reply, and the weights load_weights returns afterwards.
\* save_weights swallows a failed write (written = FALSE).
put_weights(current, new_weights, written) ==
    LET expected == DOMAIN DEFAULT_WEIGHTS
        unknown == DOMAIN new_weights \ expected
    IN
    IF unknown /= {}
    THEN [status |-> 400, detail |-> "Unknown keys", weights |-> current]
    ELSE IF \E k \in DOMAIN new_weights : ~new_weights[k].numeric
    THEN [status |-> 400, detail |-> "must be numeric", weights |-> current]
    ELSE LET stored == IF written
                       THEN load_weights([k \in DOMAIN new_weights |-> new_weights[k].v])
                       ELSE current
         IN [status |-> 200, detail |-> "ok", weights |-> stored]

NoPut == [called |-> FALSE, body |-> [k \in {} |-> Num(0)], status |-> 0,
          detail |-> "", before |-> DEFAULT_WEIGHTS]

ScoreIdle ==
    /\ weights = DEFAULT_WEIGHTS
    /\ score_call = NoCall
    /\ score_result = NoScore
    /\ weights_call = NoPut

ScoreInit ==
    /\ weights \in StoredWeights
    /\ score_call = NoCall
    /\ score_result = NoScore
    /\ weights_call = NoPut

\* One call of MatchingEngine.score(sol, comp) with the stored weights.
ScoreOn(sols, comps) ==
    /\ ~score_call.called
    /\ \E sol \in sols, comp \in comps :
         /\ score_call' = [called |-> TRUE, sol |-> sol, comp |-> comp]
         /\ score_result' = score(weights, sol, comp)
    /\ UNCHANGED << weights, weights_call, pipeVars, confirmVars, webVars, auxVars >>

Score == ScoreOn(Solicitations, Companies)

\* One PUT /api/weights request, handled before the scoring call.
PutWeights ==
    /\ ~score_call.called
    /\ \E body \in PutBodies, written \in BOOLEAN :
         LET reply == put_weights(weights, body, written) IN
         /\ weights_call' = [called |-> TRUE, body |-> body,
                             status |-> reply.status, detail |-> reply.detail,
                             before |-> weights]
         /\ weights' = reply.weights
    /\ UNCHANGED << score_call, score_result, pipeVars, confirmVars, webVars, auxVars >>


(***************************************************************************)
(* Part 3.  ConfirmationEngine.confirm_match                               *)
(*                                                                         *)
(* An evidence bundle (EnrichmentResult) carries data, error and           *)
(* confidence.  Of the data the model keeps what the engines read: counts  *)
(* for the lists whose length or emptiness is tested, the agency names,    *)
(* the SBIR phases, the capability words an AI source lists, and for each  *)
(* search snippet or patent title the set of words it contains.            *)
(***************************************************************************)
ConfirmationStatus ==
    {"confirmed", "partially_confirmed", "unconfirmed", "contradicted",
     "insufficient_data"}

confirmation_weights ==
    [past_performance_confirmation |-> 250,
     capability_verification       |-> 250,
     certification_validation      |-> 150,
     size_clearance_confirmation   |-> 150,
     market_presence               |-> 100,
     technical_expertise           |-> 100]

Sources ==
    {"usaspending", "nih_reporter", "sbir", "claude", "chatgpt", "hubspot",
     "google", "uspto", "pitchbook", "angellist"}

\* A source that is not a key of enrichment_data.
Absent ==
    [present |-> FALSE, error |-> FALSE, data |-> FALSE, confidence |-> 0,
     recent_contracts |-> 0, total_contracts |-> 0,
     awarding_agencies |-> {}, agencies |-> {},
     recent_grants |-> 0, recent_awards |-> 0, total_awards |-> 0,
     phases |-> {}, capabilities |-> {}, key_differentiators |-> 0,
     industry |-> "", total_results |-> 0, snippets |-> << >>,
     patents |-> << >>, total_patents |-> 0]

\* A key of enrichment_data whose call succeeded with non-empty data.
Found == [Absent EXCEPT !.present = TRUE, !.data = TRUE, !.confidence = 900]

\* str.lower() on the strings the model uses
Lower(a) ==
    CASE a = "DoD" -> "dod"
      [] a = "NIH" -> "nih"
      [] a = "NSA" -> "nsa"
      [] a = "CIA" -> "cia"
      [] a = "DIA" -> "dia"
      [] a = "Defense" -> "defense"
      [] a = "Intelligence" -> "intelligence"
      [] a = "Department of Defense" -> "department of defense"
      [] a = "Small" -> "small"
      [] a = "Large" -> "large"
      [] a = "Small Business" -> "small business"
      [] a = "SB" -> "sb"
      [] OTHER -> a

\* Python's "a in b" for the lower-cased agency names.
AgencyIn(a, b) ==
    \/ a = ""
    \/ a = b
    \/ << a, b >> \in { << "defense", "department of defense" >> }

RECURSIVE SumFn(_, _)
SumFn(f, S) ==
    IF S = {} THEN 0
    ELSE LET x == CHOOSE y \in S : TRUE IN f[x] + SumFn(f, S \ {x})

Usable(b) == b.present /\ b.data /\ ~b.error

\* The status ladder shared by the first two factors.
FactorStatus(confidence, contradictions, evidence) ==
    IF confidence >= 700 THEN "confirmed"
    ELSE IF confidence >= 400 THEN "partially_confirmed"
    ELSE IF contradictions > 0 THEN "contradicted"
    ELSE IF evidence = 0 THEN "insufficient_data"
    ELSE "unconfirmed"

Factor(name, status, confidence, evidence, contradictions) ==
    [factor_name |-> name, status |-> status,
     confidence |-> confidence, evidence |-> evidence,
     contradictions |-> contradictions,
     weight |-> confirmation_weights[name]]

\* Lines 164-215 of _confirm_past_performance: the evidence found, the
\* confidence accumulated and the contradictions recorded.
PastPerformanceFindings(company_data, solicitation_data, enrichment_data) ==
    LET usa == enrichment_data["usaspending"]
        nih == enrichment_data["nih_reporter"]
        sbir == enrichment_data["sbir"]
        sol_agency == Lower(solicitation_data.agency)
        has_contracts == Usable(usa) /\ usa.recent_contracts > 0
        agency_hit ==
            /\ has_contracts
            /\ sol_agency /= ""
            /\ \E a \in usa.awarding_agencies : AgencyIn(sol_agency, Lower(a))
        has_grants == Usable(nih) /\ nih.recent_grants > 0
        has_awards == Usable(sbir) /\ sbir.recent_awards > 0
        advanced == has_awards /\ (sbir.phases \cap {"Phase II", "Phase III"} /= {})
        evidence ==
              (IF has_contracts THEN 2 ELSE 0) + (IF agency_hit THEN 1 ELSE 0)
            + (IF has_grants THEN 1 ELSE 0) + (IF has_awards THEN 1 ELSE 0)
            + (IF advanced THEN 1 ELSE 0)
        c0 ==   (IF has_contracts THEN 400 ELSE 0) + (IF agency_hit THEN 200 ELSE 0)
              + (IF has_grants THEN 300 ELSE 0)
              + (IF has_awards THEN (IF advanced THEN 300 ELSE 200) ELSE 0)
        \* the description is one of "", "plain" or the claim itself
        contradicted ==
            /\ company_data.description /= ""
            /\ evidence = 0
            /\ company_data.description = "extensive government experience"
    IN [evidence |-> evidence,
        confidence |-> IF contradicted THEN Max(0, c0 - 300) ELSE c0,
        contradictions |-> IF contradicted THEN 1 ELSE 0]

\* _confirm_past_performance returning the confidence without min(1.0, .).
_confirm_past_performance_unclamped(company_data, solicitation_data, enrichment_data) ==
    LET f == PastPerformanceFindings(company_data, solicitation_data, enrichment_data)
    IN Factor("past_performance_confirmation",
              FactorStatus(f.confidence, f.contradictions, f.evidence),
              f.confidence, f.evidence, f.contradictions)

_confirm_past_performance(company_data, solicitation_data, enrichment_data) ==
    LET f == PastPerformanceFindings(company_data, solicitation_data, enrichment_data)
    IN Factor("past_performance_confirmation",
              FactorStatus(f.confidence, f.contradictions, f.evidence),
              Min(1000, f.confidence), f.evidence, f.contradictions)

\* capability_mentions: for each snippet, each claimed capability it contains
CapabilityMentions(snippets, claimed) ==
    SumSeq([i \in 1..Len(snippets) |-> Cardinality(snippets[i] \cap claimed)])

_verify_capabilities(company_data, solicitation_data, enrichment_data) ==
    LET claimed_capabilities == company_data.capabilities
        required_capabilities == solicitation_data.required_capabilities
        ai(source) ==
            LET b == enrichment_data[source] IN
            [overlap |-> Usable(b) /\ (claimed_capabilities \cap b.capabilities /= {}),
             req_overlap |-> Usable(b) /\ (required_capabilities \cap b.capabilities /= {})]
        ai_hits == Cardinality({ src \in {"claude", "chatgpt"} : ai(src).overlap })
        ai_req_hits == Cardinality({ src \in {"claude", "chatgpt"} : ai(src).req_overlap })
        hubspot == enrichment_data["hubspot"]
        has_industry == Usable(hubspot) /\ hubspot.industry /= ""
        google == enrichment_data["google"]
        capability_mentions ==
            IF Usable(google)
            THEN CapabilityMentions(google.snippets, claimed_capabilities)
            ELSE 0
        evidence == ai_hits + ai_req_hits + (IF has_industry THEN 1 ELSE 0)
                    + (IF capability_mentions > 0 THEN 1 ELSE 0)
        confidence ==
              ai_hits * 300 + ai_req_hits * 200
            + (IF has_industry THEN 200 ELSE 0)
            + (IF capability_mentions > 0
               THEN Min(300, capability_mentions * 100) ELSE 0)
        contradictions ==
            IF claimed_capabilities /= {} /\ confidence < 200 THEN 1 ELSE 0
    IN Factor("capability_verification",
              FactorStatus(confidence, contradictions, evidence),
              Min(1000, confidence), evidence, contradictions)

_validate_certifications(company_data, solicitation_data, enrichment_data) ==
    LET required_status == solicitation_data.set_asides
        sbir == enrichment_data["sbir"]
        usa == enrichment_data["usaspending"]
        sbir_small == Usable(sbir) /\ sbir.total_awards > 0
        sbir_boost == sbir_small /\ (required_status \cap {"Small Business", "SB"} /= {})
        usa_contracts == Usable(usa) /\ usa.total_contracts > 0
        employees == company_data.employees
        revenue == company_data.annual_revenue
        has_employees == company_data.employees_known /\ employees /= 0
        has_revenue == company_data.revenue_known /\ revenue /= 0
        size_hit ==
            \/ has_employees /\ employees < 500
            \/ ~(has_employees /\ employees < 500) /\ has_revenue /\ revenue < 10000000
        evidence == (IF sbir_small THEN 1 ELSE 0) + (IF usa_contracts THEN 1 ELSE 0)
                    + (IF size_hit THEN 1 ELSE 0)
        confidence == 500 + (IF sbir_boost THEN 300 ELSE 0)
                          + (IF usa_contracts THEN 200 ELSE 0)
                          + (IF size_hit THEN 200 ELSE 0)
        contradictions == 0
        status == IF confidence >= 700 THEN "confirmed"
                  ELSE IF confidence >= 400 THEN "partially_confirmed"
                  ELSE IF contradictions > 0 THEN "contradicted"
                  ELSE "insufficient_data"
    IN Factor("certification_validation", status, Min(1000, confidence),
              evidence, contradictions)


_confirm_size_and_clearance(company_data, solicitation_data, enrichment_data) ==
    LET claimed_size == Lower(company_data.size)
        has_employees == company_data.employees_known /\ company_data.employees /= 0
        employees == company_data.employees
        size_hit ==
            /\ has_employees
            /\ \/ claimed_size = "small" /\ employees < 500
               \/ claimed_size = "large" /\ employees >= 500
        claimed_clearances == company_data.security_clearances
        required_clearance == solicitation_data.security_clearance
        clearance_hit ==
            /\ claimed_clearances /= {}
            /\ required_clearance /= ""
            /\ required_clearance \in claimed_clearances
        usa == enrichment_data["usaspending"]
        classified_agencies == {"DoD", "Defense", "Intelligence", "CIA", "NSA", "DIA"}
        \* the error of the bundle is not looked at here
        classified_hit ==
            /\ usa.present /\ usa.data
            /\ \E agency \in usa.agencies : \E ca \in classified_agencies :
                  AgencyIn(Lower(ca), Lower(agency))
        evidence ==
              (IF size_hit THEN 1 ELSE 0)
            + (IF claimed_clearances /= {} THEN 2 ELSE 0)
            + (IF classified_hit THEN 1 ELSE 0)
        confidence == 500 + (IF size_hit THEN 200 ELSE 0)
                          + (IF clearance_hit THEN 300 ELSE 0)
                          + (IF classified_hit THEN 200 ELSE 0)
        status == IF confidence >= 700 THEN "confirmed"
                  ELSE IF confidence >= 400 THEN "partially_confirmed"
                  ELSE "insufficient_data"
    IN Factor("size_clearance_confirmation", status, Min(1000, confidence),
              evidence, 0)

_assess_market_presence(company_data, enrichment_data) ==
    LET google == enrichment_data["google"]
        hubspot == enrichment_data["hubspot"]
        uspto == enrichment_data["uspto"]
        \* the error of the google bundle is not looked at here
        web == IF google.present /\ google.data
               THEN IF google.total_results > 1000 THEN 300
                    ELSE IF google.total_results > 100 THEN 200 ELSE 0
               ELSE 0
        has_website == company_data.website /= ""
        crm == Usable(hubspot)
        has_patents == Usable(uspto) /\ uspto.total_patents > 0
        funding == enrichment_data["pitchbook"].present
                   \/ enrichment_data["angellist"].present
        evidence ==
              (IF web > 0 THEN 1 ELSE 0) + (IF has_website THEN 1 ELSE 0)
            + (IF crm THEN 1 ELSE 0) + (IF has_patents THEN 1 ELSE 0)
            + (IF funding THEN 1 ELSE 0)
        confidence ==
              web + (IF has_website THEN 100 ELSE 0) + (IF crm THEN 300 ELSE 0)
            + (IF has_patents THEN 300 ELSE 0) + (IF funding THEN 200 ELSE 0)
        status == IF confidence >= 600 THEN "confirmed"
                  ELSE IF confidence >= 300 THEN "partially_confirmed"
                  ELSE IF evidence = 0 THEN "insufficient_data"
                  ELSE "unconfirmed"
    IN Factor("market_presence", status, Min(1000, confidence), evidence, 0)

_verify_technical_expertise(company_data, solicitation_data, enrichment_data) ==
    LET required_keywords == solicitation_data.keywords
        uspto == enrichment_data["uspto"]
        nih == enrichment_data["nih_reporter"]
        sbir == enrichment_data["sbir"]
        keyword_matches ==
            IF Usable(uspto) /\ Len(uspto.patents) > 0
            THEN Cardinality({ kw \in required_keywords :
                                 \E i \in 1..Len(uspto.patents) : kw \in uspto.patents[i] })
            ELSE 0
        has_grants == Usable(nih) /\ nih.recent_grants > 0
        phase_two == Usable(sbir) /\ "Phase II" \in sbir.phases
        \* the error of the AI bundle is not looked at here
        differentiators ==
            \E src \in {"claude", "chatgpt"} :
                LET b == enrichment_data[src] IN
                b.present /\ b.data /\ b.key_differentiators > 0
        evidence ==
              (IF keyword_matches > 0 THEN 1 ELSE 0) + (IF has_grants THEN 1 ELSE 0)
            + (IF phase_two THEN 1 ELSE 0) + (IF differentiators THEN 1 ELSE 0)
        confidence ==
              (IF keyword_matches > 0 THEN Min(400, keyword_matches * 150) ELSE 0)
            + (IF has_grants THEN 300 ELSE 0) + (IF phase_two THEN 300 ELSE 0)
            + (IF differentiators THEN 200 ELSE 0)
        status == IF confidence >= 700 THEN "confirmed"
                  ELSE IF confidence >= 400 THEN "partially_confirmed"
                  ELSE IF evidence = 0 THEN "insufficient_data"
                  ELSE "unconfirmed"
    IN Factor("technical_expertise", status, Min(1000, confidence), evidence, 0)

CountStatus(factors, st) ==
    Cardinality({ i \in 1..Len(factors) : factors[i].status = st })

\* The weighted average of line 609.
WeightedConfidence(factors) ==
    LET total_weight == SumSeq([i \in 1..Len(factors) |-> factors[i].weight])
    IN IF total_weight > 0
       THEN SumSeq([i \in 1..Len(factors) |->
                       factors[i].confidence * factors[i].weight]) \div total_weight
       ELSE 0

\* _calculate_overall_confirmation without its first test, the one for a
\* contradicted factor.
_calculate_overall_confirmation_by_counts(factors) ==
    LET n == Len(factors)
        confirmed == CountStatus(factors, "confirmed")
        partial == CountStatus(factors, "partially_confirmed")
        insufficient == CountStatus(factors, "insufficient_data")
        overall_status ==
            IF confirmed * 10 >= n * 6 THEN "confirmed"
            ELSE IF (confirmed + partial) * 10 >= n * 5 THEN "partially_confirmed"
            ELSE IF insufficient * 10 >= n * 5 THEN "insufficient_data"
            ELSE "unconfirmed"
    IN [overall_status |-> overall_status,
        overall_confidence |-> WeightedConfidence(factors)]

_calculate_overall_confirmation(factors) ==
    LET n == Len(factors)
        confirmed == CountStatus(factors, "confirmed")
        partial == CountStatus(factors, "partially_confirmed")
        insufficient == CountStatus(factors, "insufficient_data")
        overall_status ==
            IF CountStatus(factors, "contradicted") > 0 THEN "contradicted"
            ELSE IF confirmed * 10 >= n * 6 THEN "confirmed"
            ELSE IF (confirmed + partial) * 10 >= n * 5 THEN "partially_confirmed"
            ELSE IF insufficient * 10 >= n * 5 THEN "insufficient_data"
            ELSE "unconfirmed"
    IN [overall_status |-> overall_status,
        overall_confidence |-> WeightedConfidence(factors)]

\* _assess_data_completeness: the overall_completeness entry
KeyFieldsFilled(company_data) ==
      (IF company_data.name /= "" THEN 1 ELSE 0)
    + (IF company_data.naics_codes > 0 THEN 1 ELSE 0)
    + (IF company_data.capabilities /= {} THEN 1 ELSE 0)
    + (IF company_data.size /= "" THEN 1 ELSE 0)
    + (IF company_data.description /= "" THEN 1 ELSE 0)

_assess_data_completeness(company_data, enrichment_data) ==
    LET filled_fields == KeyFieldsFilled(company_data)
        covered_sources ==
            Cardinality({ src \in {"usaspending", "hubspot", "claude", "chatgpt"} :
                            enrichment_data[src].present /\ ~enrichment_data[src].error })
    IN (filled_fields * 200 + covered_sources * 250) \div 2

confirm_match(company_data, solicitation_data, match_result, enrichment_data) ==
    LET factors ==
            << _confirm_past_performance(company_data, solicitation_data, enrichment_data),
               _verify_capabilities(company_data, solicitation_data, enrichment_data),
               _validate_certifications(company_data, solicitation_data, enrichment_data),
               _confirm_size_and_clearance(company_data, solicitation_data, enrichment_data),
               _assess_market_presence(company_data, enrichment_data),
               _verify_technical_expertise(company_data, solicitation_data, enrichment_data) >>
        overall == _calculate_overall_confirmation(factors)
    IN [overall_status |-> overall.overall_status,
        overall_confidence |-> overall.overall_confidence,
        factors |-> factors,
        data_completeness |-> _assess_data_completeness(company_data, enrichment_data)]


(***************************************************************************)
(* Part 3, continued.  ValidationEngine.validate                           *)
(***************************************************************************)
validation_weights ==
    [match_quality |-> 300, confirmation_quality |-> 250,
     data_reliability |-> 150, risk_assessment |-> 150, strategic_fit |-> 150]

Component(name, score_value, risk_factors) ==
    [component_name |-> name, score |-> score_value,
     weight |-> validation_weights[name], risk_factors |-> risk_factors]

_evaluate_match_quality(match_result) ==
    LET match_score == match_result.score
        strength_count == match_result.strengths
        gap_count == Cardinality(match_result.gaps)
        adjusted_score ==
            IF strength_count > 0 /\ gap_count > 0
            THEN (match_score * (700 * (strength_count + gap_count) + 300 * strength_count))
                     \div (1000 * (strength_count + gap_count))
            ELSE match_score
        risk_factors ==
            (IF gap_count > strength_count THEN {"more gaps than strengths"} ELSE {})
            \cup (IF match_score < 500 THEN {"low initial match score"} ELSE {})
    IN Component("match_quality", adjusted_score, risk_factors)

status_multipliers ==
    [st \in ConfirmationStatus |->
        CASE st = "confirmed"           -> 1000
          [] st = "partially_confirmed" -> 750
          [] st = "unconfirmed"         -> 500
          [] st = "contradicted"        -> 200
          [] OTHER                      -> 600]

_evaluate_confirmation_quality(conf) ==
    LET confirmation_score == conf.overall_confidence
        status == conf.overall_status
        adjusted_score == (confirmation_score * status_multipliers[status]) \div 1000
        risk_factors ==
            (IF status = "contradicted" THEN {"contradictions found"} ELSE {})
            \cup (IF status = "insufficient_data" THEN {"insufficient data"} ELSE {})
            \cup (IF confirmation_score < 500 THEN {"low confirmation confidence"} ELSE {})
    IN Component("confirmation_quality", adjusted_score, risk_factors)

\* _assess_data_reliability before the final min(1.0, .)
DataReliability(company_data, enrichment_data, conf) ==
    LET filled_fields == KeyFieldsFilled(company_data)
        keys == { src \in Sources : enrichment_data[src].present }
        total_enrichments == Cardinality(keys)
        successful_enrichments ==
            Cardinality({ src \in keys : ~enrichment_data[src].error
                                          /\ enrichment_data[src].data })
        high_confidence_sources ==
            Cardinality({ src \in keys : enrichment_data[src].confidence >= 800 })
        from_enrichment ==
            IF keys /= {}
            THEN (successful_enrichments * 400) \div total_enrichments
                 + (IF high_confidence_sources > 0
                    THEN Min(300, high_confidence_sources * 100) ELSE 0)
            ELSE 0
        reliability_score == filled_fields * 60 + from_enrichment
    IN (reliability_score + conf.data_completeness) \div 2

_assess_data_reliability(company_data, enrichment_data, conf) ==
    LET filled_fields == KeyFieldsFilled(company_data)
        keys == { src \in Sources : enrichment_data[src].present }
        successful_enrichments ==
            Cardinality({ src \in keys : ~enrichment_data[src].error
                                          /\ enrichment_data[src].data })
        risk_factors ==
            (IF filled_fields * 10 < 5 * 6 THEN {"incomplete company profile"} ELSE {})
            \cup (IF keys = {} THEN {"no external data enrichment"}
                  ELSE IF successful_enrichments * 2 < Cardinality(keys)
                  THEN {"low enrichment success rate"} ELSE {})
    IN Component("data_reliability",
                 Min(1000, DataReliability(company_data, enrichment_data, conf)),
                 risk_factors)

\* The deductions of _assess_risks, each with the risk it records.
RiskDeductions(company_data, solicitation_data, match_result, conf) ==
    LET past_perf_factor == conf.factors[1]
        required_clearance == solicitation_data.security_clearance
        required_setasides == solicitation_data.set_asides
        company_status == { Lower(cs) : cs \in company_data.socioeconomic_status }
    IN
    { d \in { [risk |-> "unverified or contradicted past performance", by |-> 300,
               on |-> past_perf_factor.status \in {"unconfirmed", "contradicted"}],
              [risk |-> "past performance contradictions", by |-> 200,
               on |-> past_perf_factor.contradictions > 0],
              [risk |-> "critical capability or naics gaps", by |-> 250,
               on |-> match_result.gaps \cap {"Capabilities gap", "NAICS mismatch"} /= {}],
              [risk |-> "required clearance not confirmed", by |-> 300,
               on |-> required_clearance /= ""
                      /\ required_clearance \notin company_data.security_clearances],
              [risk |-> "set-aside requirement may not be met", by |-> 350,
               on |-> required_setasides /= {}
                      /\ ~\E sa \in required_setasides : Lower(sa) \in company_status],
              [risk |-> "insufficient data", by |-> 200,
               on |-> conf.overall_status = "insufficient_data"],
              [risk |-> "very small team", by |-> 150,
               on |-> company_data.employees_known /\ company_data.employees < 10],
              [risk |-> "no documented government experience", by |-> 200,
               on |-> past_perf_factor.evidence = 0] } : d.on }

_assess_risks(company_data, solicitation_data, match_result, conf) ==
    LET ds == RiskDeductions(company_data, solicitation_data, match_result, conf)
        risk_score == 1000 - SumFn([d \in ds |-> d.by], ds)
    IN Component("risk_assessment", Max(0, risk_score), { d.risk : d \in ds })

_evaluate_strategic_fit(company_data, solicitation_data, enrichment_data) ==
    LET sol_agency == Lower(solicitation_data.agency)
        usa == enrichment_data["usaspending"]
        google == enrichment_data["google"]
        hubspot == enrichment_data["hubspot"]
        agency_alignment ==
            /\ usa.present /\ usa.data
            /\ \E a \in usa.agencies : AgencyIn(sol_agency, Lower(a))
        innovation ==
            \E src \in {"uspto", "sbir", "nih_reporter"} :
                enrichment_data[src].present /\ enrichment_data[src].data
        market == google.present /\ google.data /\ google.total_results > 1000
        relationship == Usable(hubspot)
        growth == company_data.revenue_known /\ company_data.annual_revenue > 5000000
        depth == 2 * Cardinality(company_data.capabilities)
                     >= 3 * Cardinality(solicitation_data.required_capabilities)
        strategic_score ==
              500 + (IF agency_alignment THEN 200 ELSE 0)
            + (IF innovation THEN 200 ELSE 0) + (IF market THEN 150 ELSE 0)
            + (IF relationship THEN 150 ELSE 0) + (IF growth THEN 150 ELSE 0)
            + (IF depth THEN 150 ELSE 0)
        risk_factors ==
            IF company_data.revenue_known /\ company_data.annual_revenue <= 5000000
               /\ company_data.annual_revenue < 500000
            THEN {"limited revenue"} ELSE {}
    IN Component("strategic_fit", Min(1000, strategic_score), risk_factors)

_calculate_validation_score(components) ==
    LET total_weight == SumSeq([i \in 1..Len(components) |-> components[i].weight])
    IN IF total_weight = 0 THEN 0
       ELSE Max(0, Min(1000,
                SumSeq([i \in 1..Len(components) |->
                           components[i].score * components[i].weight])
                    \div total_weight))

_determine_validation_level(score_value) ==
    IF score_value >= 850 THEN "excellent"
    ELSE IF score_value >= 700 THEN "good"
    ELSE IF score_value >= 550 THEN "acceptable"
    ELSE IF score_value >= 400 THEN "marginal"
    ELSE IF score_value >= 250 THEN "poor"
    ELSE "rejected"

\* The recorded risks whose text contains "clearance", "set-aside" or
\* "contradicted".
CriticalRisks ==
    {"unverified or contradicted past performance",
     "required clearance not confirmed",
     "set-aside requirement may not be met"}

\* len(risk_factors): the contradiction texts are added one by one, and a
\* past-performance factor records at most one.
_determine_risk_level(risk_component, conf) ==
    LET risk_count == Cardinality(risk_component.risk_factors)
        risk_score == risk_component.score
        has_critical == risk_component.risk_factors \cap CriticalRisks /= {}
    IN IF has_critical \/ risk_score < 300 THEN "critical"
       ELSE IF risk_score < 500 \/ risk_count >= 5 THEN "high"
       ELSE IF risk_score < 700 \/ risk_count >= 3 THEN "medium"
       ELSE "low"

validate(company_data, solicitation_data, match_result, conf, enrichment_data) ==
    LET score_components ==
            << _evaluate_match_quality(match_result),
               _evaluate_confirmation_quality(conf),
               _assess_data_reliability(company_data, enrichment_data, conf),
               _assess_risks(company_data, solicitation_data, match_result, conf),
               _evaluate_strategic_fit(company_data, solicitation_data, enrichment_data) >>
        validation_score == _calculate_validation_score(score_components)
    IN [validation_score |-> validation_score,
        validation_level |-> _determine_validation_level(validation_score),
        risk_level |-> _determine_risk_level(score_components[4], conf),
        score_components |-> score_components,
        match_score |-> match_result.score,
        confirmation_score |-> conf.overall_confidence]

\* ---- the lists of a ValidationResult ----
\* str hashes are randomised per interpreter process, so list(set(texts))
\* comes out in an order fixed by the process's hash seed.  Two seeds stand
\* for two processes: one order and its reverse.
HashSeeds == {"seed_a", "seed_b"}

RECURSIVE Enumerate(_)
Enumerate(S) ==
    IF S = {} THEN << >>
    ELSE LET x == CHOOSE y \in S : TRUE IN << x >> \o Enumerate(S \ {x})

Reversed(s) == [i \in 1..Len(s) |-> s[Len(s) + 1 - i]]

\* list(set(texts))
ListOfSet(S, seed) ==
    IF seed = "seed_a" THEN Enumerate(S) ELSE Reversed(Enumerate(S))

\* f"Weak {component_name.replace('_', ' ')}"
WeakText(name) ==
    CASE name = "match_quality"        -> "Weak match quality"
      [] name = "confirmation_quality" -> "Weak confirmation quality"
      [] name = "data_reliability"     -> "Weak data reliability"
      [] name = "risk_assessment"      -> "Weak risk assessment"
      [] OTHER                         -> "Weak strategic fit"

\* _generate_swot: weaknesses and opportunities.  (The strengths are built
\* and de-duplicated the same way from the match strengths and the evidence
\* strings, which are counts here.)
_generate_swot(match_result, conf, components, seed) ==
    LET weaknesses ==
            match_result.gaps
            \cup { WeakText(components[i].component_name) :
                      i \in { j \in 1..Len(components) : components[j].score < 500 } }
        opportunities ==
            (IF \E i \in 1..Len(components) :
                    /\ components[i].component_name = "strategic_fit"
                    /\ components[i].score >= 700
             THEN {"Strong strategic alignment for long-term partnership"} ELSE {})
            \cup
            (IF \E i \in 1..Len(conf.factors) :
                    /\ conf.factors[i].factor_name = "market_presence"
                    /\ conf.factors[i].status = "confirmed"
             THEN {"Established market presence supports credibility"} ELSE {})
    IN [weaknesses |-> Prefix(ListOfSet(weaknesses, seed), 10),
        opportunities |-> Prefix(ListOfSet(opportunities, seed), 5)]

\* _extract_all_risks
_extract_all_risks(components, seed) ==
    Prefix(ListOfSet(UNION { components[i].risk_factors : i \in 1..Len(components) },
                     seed), 15)

\* What one run of validate returns besides the score components.
ValidateRun(company_data, solicitation_data, match_result, conf, enrichment_data, seed) ==
    LET result == validate(company_data, solicitation_data, match_result, conf,
                           enrichment_data)
        swot == _generate_swot(match_result, conf, result.score_components, seed)
    IN [validation_score |-> result.validation_score,
        validation_level |-> result.validation_level,
        risk_level |-> result.risk_level,
        weaknesses |-> swot.weaknesses,
        opportunities |-> swot.opportunities,
        risks |-> _extract_all_risks(result.score_components, seed)]


\* ---- inputs of confirm_match and validate ----
UsaspendingBundles ==
    { Absent,
      [Found EXCEPT !.recent_contracts = 3, !.total_contracts = 3,
                    !.awarding_agencies = {"DoD"},
                    !.agencies = {"Department of Defense"}],
      [Found EXCEPT !.recent_contracts = 1, !.total_contracts = 1,
                    !.awarding_agencies = {"NIH"}, !.agencies = {"NIH"},
                    !.confidence = 600],
      [Found EXCEPT !.error = TRUE, !.confidence = 0, !.agencies = {"NSA"}] }

NihBundles == { Absent, [Found EXCEPT !.recent_grants = 2] }

SbirBundles ==
    { Absent,
      [Found EXCEPT !.recent_awards = 1, !.total_awards = 1, !.phases = {"Phase I"}],
      [Found EXCEPT !.recent_awards = 2, !.total_awards = 2,
                    !.phases = {"Phase I", "Phase II"}] }

AiBundles ==
    { Absent,
      [Found EXCEPT !.capabilities = {"cloud", "ai"}, !.key_differentiators = 2],
      [Found EXCEPT !.capabilities = {"welding"}, !.confidence = 500] }

HubspotBundles == { Absent, [Found EXCEPT !.industry = "software"] }

GoogleBundles ==
    { Absent,
      [Found EXCEPT !.total_results = 5000,
                    !.snippets = << {"cloud", "ai"}, {"cloud"}, {"ai"}, {"cloud"} >>],
      [Found EXCEPT !.total_results = 50, !.snippets = << {} >>, !.confidence = 400] }

UsptoBundles ==
    { Absent,
      [Found EXCEPT !.total_patents = 2,
                    !.patents = << {"radar", "lidar"}, {"sonar"} >>] }

FundingBundles ==
    { Absent,
      [Found EXCEPT !.data = FALSE, !.confidence = 300],
      [Found EXCEPT !.data = FALSE, !.error = TRUE, !.confidence = 0] }

EnrichmentData ==
    { [src \in Sources |->
          CASE src = "usaspending"  -> usa
            [] src = "nih_reporter" -> nih
            [] src = "sbir"         -> sbir
            [] src = "chatgpt"      -> gpt
            [] src = "hubspot"      -> hub
            [] src = "google"       -> goo
            [] src = "uspto"        -> pat
            [] src = "pitchbook"    -> fund
            [] OTHER                -> Absent] :
      usa \in UsaspendingBundles, nih \in NihBundles, sbir \in SbirBundles,
      gpt \in AiBundles, hub \in HubspotBundles, goo \in GoogleBundles,
      pat \in UsptoBundles, fund \in FundingBundles }

CompanyData ==
    { [name |-> "Acme", naics_codes |-> 2, capabilities |-> {"cloud", "ai", "data"},
       size |-> "Small", description |-> "plain",
       employees_known |-> TRUE, employees |-> 50,
       revenue_known |-> TRUE, annual_revenue |-> 6000000,
       security_clearances |-> {"Secret"},
       socioeconomic_status |-> {"small business"}, website |-> "ok.com"],
      [name |-> "Boast", naics_codes |-> 0, capabilities |-> {"cloud"},
       size |-> "", description |-> "extensive government experience",
       employees_known |-> FALSE, employees |-> 0,
       revenue_known |-> FALSE, annual_revenue |-> 0,
       security_clearances |-> {}, socioeconomic_status |-> {}, website |-> ""],
      [name |-> "Tiny", naics_codes |-> 1, capabilities |-> {},
       size |-> "Large", description |-> "",
       employees_known |-> TRUE, employees |-> 5,
       revenue_known |-> TRUE, annual_revenue |-> 100000,
       security_clearances |-> {}, socioeconomic_status |-> {"8(a)"},
       website |-> "low.com"],
      [name |-> "Major", naics_codes |-> 3, capabilities |-> {"welding"},
       size |-> "Large", description |-> "plain",
       employees_known |-> TRUE, employees |-> 600,
       revenue_known |-> TRUE, annual_revenue |-> 50000000,
       security_clearances |-> {"Top Secret"}, socioeconomic_status |-> {},
       website |-> "tie.com"] }

SolicitationData ==
    { [agency |-> "DoD", set_asides |-> {"Small Business"},
       security_clearance |-> "Secret", required_capabilities |-> {"cloud", "ai"},
       keywords |-> {"radar", "lidar", "sonar"}],
      [agency |-> "", set_asides |-> {}, security_clearance |-> "",
       required_capabilities |-> {}, keywords |-> {}],
      [agency |-> "NIH", set_asides |-> {"8(a)"},
       security_clearance |-> "Top Secret",
       required_capabilities |-> {"welding", "casting", "forging"},
       keywords |-> {"radar"}] }

\* A match result: the score, the number of strengths, and the gaps.
MatchResults ==
    { [score |-> 0,    strengths |-> 0, gaps |-> {"NAICS mismatch", "Capabilities gap"}],
      [score |-> 450,  strengths |-> 1, gaps |-> {"Capabilities gap",
                                                  "Missing required clearance"}],
      [score |-> 1000, strengths |-> 5, gaps |-> {}],
      [score |-> 800,  strengths |-> 3, gaps |-> {"Limited past performance alignment"}] }

NoConfirmCall ==
    [company_data |-> CHOOSE c \in CompanyData : c.name = "Acme",
     solicitation_data |-> CHOOSE d \in SolicitationData : d.agency = "",
     match_result |-> CHOOSE m \in MatchResults : m.score = 0,
     enrichment_data |-> [src \in Sources |-> Absent]]

NoConfirmationResult ==
    [overall_status |-> "insufficient_data", overall_confidence |-> 0,
     factors |-> << >>, data_completeness |-> 0]

NoValidationResult ==
    [validation_score |-> 0, validation_level |-> "rejected",
     risk_level |-> "low", score_components |-> << >>, match_score |-> 0,
     confirmation_score |-> 0]

ConfirmStart ==
    /\ confirm_pc = "ready"
    /\ confirm_call = NoConfirmCall
    /\ confirmation_result = NoConfirmationResult
    /\ validation_result = NoValidationResult
    /\ swot_runs = << >>

ConfirmInit == ConfirmStart /\ hash_seed = "seed_a"

\* One call of ConfirmationEngine.confirm_match.
ConfirmMatchOn(enrichments) ==
    /\ confirm_pc = "ready"
    /\ \E c \in CompanyData, d \in SolicitationData, m \in MatchResults,
          e \in enrichments :
         /\ confirm_call' = [company_data |-> c, solicitation_data |-> d,
                             match_result |-> m, enrichment_data |-> e]
         /\ confirmation_result' = confirm_match(c, d, m, e)
    /\ confirm_pc' = "confirmed"
    /\ UNCHANGED << validation_result, hash_seed, swot_runs, pipeVars, scoreVars,
                    webVars, auxVars >>

ConfirmMatch == ConfirmMatchOn(EnrichmentData)

\* ValidationEngine.validate on the same arguments and the confirmation.
Validate ==
    /\ confirm_pc = "confirmed"
    /\ validation_result' =
           validate(confirm_call.company_data, confirm_call.solicitation_data,
                    confirm_call.match_result, confirmation_result,
                    confirm_call.enrichment_data)
    /\ swot_runs' =
           << ValidateRun(confirm_call.company_data, confirm_call.solicitation_data,
                          confirm_call.match_result, confirmation_result,
                          confirm_call.enrichment_data, hash_seed) >>
    /\ confirm_pc' = "validated"
    /\ UNCHANGED << confirm_call, confirmation_result, hash_seed, pipeVars,
                    scoreVars, webVars, auxVars >>

\* validate once more on the same arguments.
Revalidate ==
    /\ confirm_pc = "validated"
    /\ Len(swot_runs) = 1
    /\ validation_result' =
           validate(confirm_call.company_data, confirm_call.solicitation_data,
                    confirm_call.match_result, confirmation_result,
                    confirm_call.enrichment_data)
    /\ swot_runs' = Append(swot_runs,
           ValidateRun(confirm_call.company_data, confirm_call.solicitation_data,
                       confirm_call.match_result, confirmation_result,
                       confirm_call.enrichment_data, hash_seed))
    /\ UNCHANGED << confirm_pc, confirm_call, confirmation_result, hash_seed,
                    pipeVars, scoreVars, webVars, auxVars >>

\* The service is restarted between two runs: a new interpreter process
\* with its own hash seed.
Restart ==
    /\ confirm_pc = "validated"
    /\ Len(swot_runs) = 1
    /\ hash_seed' \in HashSeeds \ {hash_seed}
    /\ UNCHANGED << swot_runs, confirm_pc, confirm_call, confirmation_result,
                    validation_result, pipeVars, scoreVars, webVars, auxVars >>


(***************************************************************************)
(* Part 4.  WebsiteValidator.validate_company_website                      *)
(*                                                                         *)
(* A page is what the crawler extracts from it: the length of its main     *)
(* text, the boilerplate phrases the text contains, its word count and its *)
(* vocabulary, its headings, the capabilities whose keywords occur in its  *)
(* text, and its internal links.                                           *)
(***************************************************************************)
max_pages == 10
max_depth == 3
MIN_MAIN_TEXT_LENGTH == 200
MIN_TOTAL_CONTENT == 500
MIN_HEADINGS == 2
MIN_PAGES == 1

boilerplate_patterns ==
    {"coming soon", "under construction", "this page is empty",
     "no content available", "page not found", "404", "error loading"}

Urls == {"/", "/a"}

Page(status, len, headings, patterns, words, vocabulary, topics, links) ==
    [status |-> status, main_text_len |-> len, headings |-> headings,
     patterns |-> patterns, words |-> words, vocabulary |-> vocabulary,
     topics |-> topics, links |-> links]

Unreachable == Page(500, 0, {}, {}, 0, {}, {}, << >>)

\* Lines 324-381: the crawl loop.  queue holds << url, depth >> pairs.
RECURSIVE CrawlLoop(_, _, _, _)
CrawlLoop(site, urls_to_visit, visited_urls, pages_data) ==
    IF urls_to_visit = << >> \/ Len(pages_data) >= max_pages
    THEN pages_data
    ELSE
    LET current_url == Head(urls_to_visit)[1]
        depth == Head(urls_to_visit)[2]
        rest == Tail(urls_to_visit)
        page == site[current_url]
    IN
    IF current_url \in visited_urls \/ depth > max_depth
    THEN CrawlLoop(site, rest, visited_urls, pages_data)
    ELSE IF page.status /= 200
    THEN CrawlLoop(site, rest, visited_urls, pages_data)
    ELSE IF page.main_text_len < 50 /\ page.headings = {}
    THEN CrawlLoop(site, rest, visited_urls \cup {current_url}, pages_data)
    ELSE
    LET seen == visited_urls \cup {current_url}
        fresh == SelectSeq(page.links, LAMBDA l : l \notin seen)
        next == IF depth < max_depth
                THEN rest \o [i \in 1..Len(fresh) |-> << fresh[i], depth + 1 >>]
                ELSE rest
    IN CrawlLoop(site, next, seen, Append(pages_data, page))

RECURSIVE UnionSeq(_)
UnionSeq(s) == IF s = << >> THEN {} ELSE Head(s) \cup UnionSeq(Tail(s))

\* _aggregate_crawled_data: the texts are joined with one blank between them
_aggregate_crawled_data(pages_data) ==
    LET n == Len(pages_data)
        all_len == SumSeq([i \in 1..n |-> pages_data[i].main_text_len]) + (n - 1)
    IN [accessible |-> TRUE,
        pages_crawled |-> n,
        main_text_len |-> Min(20000, all_len),
        headings |-> UnionSeq([i \in 1..n |-> pages_data[i].headings]),
        patterns |-> UnionSeq([i \in 1..n |-> pages_data[i].patterns]),
        words |-> SumSeq([i \in 1..n |-> pages_data[i].words]),
        vocabulary |-> UnionSeq([i \in 1..n |-> pages_data[i].vocabulary]),
        topics |-> UnionSeq([i \in 1..n |-> pages_data[i].topics]),
        total_content_length |-> all_len,
        content_validated |-> FALSE,
        error |-> ""]

_validate_content_quality(aggregated_data) ==
    IF aggregated_data.main_text_len < MIN_MAIN_TEXT_LENGTH THEN FALSE
    ELSE IF aggregated_data.total_content_length < MIN_TOTAL_CONTENT THEN FALSE
    ELSE IF Cardinality(aggregated_data.headings) < MIN_HEADINGS THEN FALSE
    ELSE IF aggregated_data.pages_crawled < MIN_PAGES THEN FALSE
    \* boilerplate_ratio > 0.3
    ELSE IF Cardinality(aggregated_data.patterns \cap boilerplate_patterns) * 10
                > 3 * Cardinality(boilerplate_patterns) THEN FALSE
    \* diversity_ratio < 0.3
    ELSE IF aggregated_data.words > 0
            /\ Cardinality(aggregated_data.vocabulary) * 10 < 3 * aggregated_data.words
    THEN FALSE
    ELSE TRUE

NotCrawled(error) ==
    [accessible |-> FALSE, pages_crawled |-> 0, main_text_len |-> 0,
     headings |-> {}, patterns |-> {}, words |-> 0, vocabulary |-> {},
     topics |-> {}, total_content_length |-> 0, content_validated |-> FALSE,
     error |-> error]

\* _deep_crawl_website that records the gate's answer as passed without
\* running the gate.
_deep_crawl_website_ungated(site, dependencies_installed) ==
    IF ~dependencies_installed THEN NotCrawled("Dependencies not installed")
    ELSE
    LET pages_data == CrawlLoop(site, << << "/", 0 >> >>, {}, << >>) IN
    IF pages_data = << >> THEN NotCrawled("No pages could be crawled")
    ELSE [_aggregate_crawled_data(pages_data) EXCEPT !.content_validated = TRUE]

_deep_crawl_website(site, dependencies_installed) ==
    IF ~dependencies_installed THEN NotCrawled("Dependencies not installed")
    ELSE
    LET pages_data == CrawlLoop(site, << << "/", 0 >> >>, {}, << >>) IN
    IF pages_data = << >> THEN NotCrawled("No pages could be crawled")
    ELSE
    LET aggregated_data == _aggregate_crawled_data(pages_data)
        content_valid == _validate_content_quality(aggregated_data)
    IN IF ~content_valid
       THEN [aggregated_data EXCEPT !.content_validated = FALSE,
                                    !.accessible = FALSE,
                                    !.error = "Insufficient meaningful content found"]
       ELSE [aggregated_data EXCEPT !.content_validated = TRUE]


\* ---- analysis of validated content ----
\* Capability names are compared lower-cased; on the names the model uses
\* ("cloud computing", "cybersecurity", "research") the substring tests of
\* the code are equality.

\* _extract_website_capabilities: keyword extraction, joined with the AI
\* extraction when a client is configured.
_extract_website_capabilities(website_data, openai_client, ai_capabilities) ==
    IF openai_client THEN website_data.topics \cup ai_capabilities
    ELSE website_data.topics

_analyze_alignment_keyword_based(website_data, solicitation_data) ==
    LET required_capabilities == solicitation_data.required_capabilities
        capability_matches == required_capabilities \cap website_data.topics
    IN [present |-> TRUE,
        overall_alignment_score |->
            IF required_capabilities /= {}
            THEN (1000 * Cardinality(capability_matches))
                     \div Cardinality(required_capabilities)
            ELSE 500,
        hallucination_penalty |-> 0,
        content_verified |-> FALSE,
        checked |-> FALSE]

\* penalty += weight * ratio when ratio > threshold (both in thousandths)
RatioPenalty(count, total, threshold, weight) ==
    IF total > 0 /\ count * 1000 > threshold * total
    THEN (weight * count) \div total ELSE 0

_detect_hallucinations(alignment_result, website_data) ==
    LET matches == alignment_result.capability_matches
        unverified_matches ==
            Cardinality({ i \in 1..Len(matches) :
                            /\ matches[i].capability \notin website_data.topics
                            /\ ~matches[i].evidence_has_website_refs })
        penalty ==
              RatioPenalty(unverified_matches, Len(matches), 500, 300)
            + RatioPenalty(alignment_result.vague_evidence,
                           alignment_result.technical_evidence, 400, 200)
            + (IF alignment_result.overall_alignment_score > 800
                  /\ website_data.total_content_length < 1000 THEN 300 ELSE 0)
            + (IF ~website_data.content_validated THEN 400 ELSE 0)
            + RatioPenalty(alignment_result.generic_evidence,
                           alignment_result.evidence_found, 600, 200)
    IN Min(1000, penalty)

\* _analyze_solicitation_alignment: the alignment and the set of analysis
\* methods that received the content.
_analyze_solicitation_alignment(website_data, solicitation_data, openai_client, reply) ==
    IF ~openai_client
    THEN [alignment |-> _analyze_alignment_keyword_based(website_data, solicitation_data),
          calls |-> {"_analyze_alignment_keyword_based"}]
    ELSE IF reply.kind = "json"
    THEN LET hallucination_penalty == _detect_hallucinations(reply, website_data)
         IN [alignment |->
                [present |-> TRUE,
                 overall_alignment_score |->
                     IF hallucination_penalty > 0
                     THEN Max(0, reply.overall_alignment_score - hallucination_penalty)
                     ELSE reply.overall_alignment_score,
                 hallucination_penalty |-> hallucination_penalty,
                 content_verified |-> hallucination_penalty < 300,
                 checked |-> TRUE],
             calls |-> {"generative_alignment", "_detect_hallucinations"}]
    ELSE [alignment |->
             [_analyze_alignment_keyword_based(website_data, solicitation_data)
                 EXCEPT !.content_verified = TRUE],
          calls |-> {"generative_alignment", "_analyze_alignment_keyword_based"}]

_identify_confirmed_capabilities(company_data, website_capabilities) ==
    company_data.capabilities \cap website_capabilities

\* _identify_gaps: the severities of the gaps found
_identify_gaps(company_data, website_capabilities, solicitation_data, website_data) ==
    LET claimed == company_data.capabilities
        required == solicitation_data.required_capabilities
        missing == { c \in claimed : c \notin website_capabilities
                                      /\ c \notin website_data.topics }
        absent == { r \in required : r \notin claimed /\ r \notin website_capabilities }
    IN [c \in missing |-> IF c \in required THEN 800 ELSE 500]
       @@ [r \in absent |-> 1000]

_calculate_website_score(confirmed_capabilities, gaps, company_data, solicitation_alignment) ==
    LET claimed_capabilities == company_data.capabilities IN
    IF claimed_capabilities = {}
    THEN solicitation_alignment.overall_alignment_score
    ELSE
    LET confirmation_rate ==
            (1000 * Cardinality(confirmed_capabilities))
                \div Cardinality(claimed_capabilities)
        gap_penalty ==
            IF DOMAIN gaps /= {}
            THEN ((SumFn(gaps, DOMAIN gaps) \div Cardinality(DOMAIN gaps)) * 300) \div 1000
            ELSE 0
        base_score == (confirmation_rate * 700 + (1000 - gap_penalty) * 300) \div 1000
        score_value == (base_score * 600
                        + solicitation_alignment.overall_alignment_score * 400) \div 1000
    IN Max(0, Min(1000, score_value))

NoAlignment ==
    [present |-> FALSE, overall_alignment_score |-> 0,
     hallucination_penalty |-> 0, content_verified |-> FALSE, checked |-> FALSE]

EarlyResult(summary, validation_score) ==
    [summary |-> summary, website_accessible |-> FALSE,
     validation_score |-> validation_score, gaps_found |-> 1,
     confirmed_capabilities |-> {}, website_capabilities |-> {},
     solicitation_alignment |-> NoAlignment, content_validated |-> FALSE]

_create_no_website_result == EarlyResult("NO WEBSITE", 300)

_create_inaccessible_website_result == EarlyResult("WEBSITE INACCESSIBLE", 400)

_create_invalid_content_result == EarlyResult("CONTENT NOT VERIFIED", 200)

\* validate_company_website: the result and the analysis methods that were
\* handed the crawled content.
validate_company_website(call) ==
    LET company_data == call.company_data
        solicitation_data == call.solicitation_data
    IN
    IF company_data.website = ""
    THEN [result |-> _create_no_website_result, calls |-> {}]
    ELSE
    LET crawled_data == _deep_crawl_website(call.site, call.dependencies_installed) IN
    IF ~crawled_data.accessible
    THEN [result |-> _create_inaccessible_website_result, calls |-> {}]
    ELSE IF ~crawled_data.content_validated
    THEN [result |-> _create_invalid_content_result, calls |-> {}]
    ELSE
    LET website_capabilities ==
            _extract_website_capabilities(crawled_data, call.openai_client,
                                          call.ai_capabilities)
        analysis ==
            _analyze_solicitation_alignment(crawled_data, solicitation_data,
                                            call.openai_client, call.ai_alignment)
        gaps == _identify_gaps(company_data, website_capabilities,
                               solicitation_data, crawled_data)
        confirmed_capabilities ==
            _identify_confirmed_capabilities(company_data, website_capabilities)
    IN [result |->
           [summary |-> "VALIDATED", website_accessible |-> TRUE,
            validation_score |->
                _calculate_website_score(confirmed_capabilities, gaps,
                                         company_data, analysis.alignment),
            gaps_found |-> Cardinality(DOMAIN gaps),
            confirmed_capabilities |-> confirmed_capabilities,
            website_capabilities |-> website_capabilities,
            solicitation_alignment |-> analysis.alignment,
            content_validated |-> crawled_data.content_validated],
        calls |-> {"_extract_website_capabilities", "_analyze_solicitation_alignment",
                   "_identify_gaps", "_identify_confirmed_capabilities"}
                  \cup analysis.calls]


\* ---- inputs of /api/validate-website ----
Leaf(len, headings, patterns, words, distinct_words, topics) ==
    Page(200, len, headings, patterns, words, 1..distinct_words, topics, << >>)

Missing == Page(404, 0, {}, {}, 0, {}, {}, << >>)

OnePage(page) == [u \in Urls |-> IF u = "/" THEN page ELSE Missing]

Sites ==
    [down |-> OnePage(Unreachable),
     blank |-> OnePage(Leaf(10, {}, {}, 2, 2, {})),
     thin |-> OnePage(Leaf(120, {"Home"}, {}, 20, 18, {"research"})),
     short_total |-> OnePage(Leaf(300, {"Home", "Services"}, {}, 50, 40,
                                  {"cloud computing"})),
     few_headings |-> OnePage(Leaf(800, {"Home"}, {}, 130, 90,
                                   {"cloud computing", "cybersecurity"})),
     boilerplate |-> OnePage(Leaf(800, {"Home", "Services"},
                                  {"coming soon", "under construction", "404"},
                                  130, 90, {"cloud computing"})),
     repetitive |-> OnePage(Leaf(800, {"Home", "Services"}, {}, 150, 40,
                                 {"cloud computing"})),
     split |-> [u \in Urls |->
                  IF u = "/"
                  THEN Page(200, 300, {"Home"}, {}, 50, 1..40,
                            {"cloud computing"}, << "/a", "/" >>)
                  ELSE Page(200, 300, {"Services"}, {}, 50, 1..40,
                            {"cybersecurity"}, << "/" >>)],
     modest |-> OnePage(Leaf(700, {"Home", "Research"}, {"404"}, 110, 80,
                             {"research"})),
     rich |-> OnePage(Leaf(1500, {"Home", "Services", "About"}, {}, 240, 150,
                           {"cloud computing", "cybersecurity"}))]

SiteNames == DOMAIN Sites

WebCompanies ==
    { [name |-> "Acme", website |-> w, capabilities |-> c] :
        w \in {"", "ok.com"},
        c \in {{}, {"cloud computing"}, {"cloud computing", "research"}} }

WebSolicitations ==
    { [required_capabilities |-> r] :
        r \in {{}, {"cybersecurity"}, {"cloud computing", "cybersecurity"}} }

Match(capability, evidence_has_website_refs) ==
    [capability |-> capability,
     evidence_has_website_refs |-> evidence_has_website_refs]

AiAlignment(kind, alignment_score, matches, vague, technical, generic, evidence) ==
    [kind |-> kind, overall_alignment_score |-> alignment_score,
     capability_matches |-> matches,
     vague_evidence |-> vague, technical_evidence |-> technical,
     generic_evidence |-> generic, evidence_found |-> evidence]

\* What the chat completion answers: grounded JSON, inflated JSON, JSON
\* without any list, text that is not JSON, or an API error.
AiAlignments ==
    { AiAlignment("json", 700, << Match("cloud computing", TRUE) >>, 0, 2, 0, 2),
      AiAlignment("json", 950, << Match("quantum sensing", FALSE),
                                  Match("hypersonics", FALSE) >>, 2, 2, 2, 2),
      AiAlignment("json", 900, << >>, 0, 0, 0, 0),
      AiAlignment("text", 0, << >>, 0, 0, 0, 0),
      AiAlignment("error", 0, << >>, 0, 0, 0, 0) }

AiCapabilities == { {}, {"research"} }

NoWebCall ==
    [site_name |-> "", company_data |-> [name |-> "", website |-> "",
                                         capabilities |-> {}],
     solicitation_data |-> [required_capabilities |-> {}],
     openai_client |-> FALSE, dependencies_installed |-> FALSE]

NoWebResult == EarlyResult("", 0)

WebIdle ==
    /\ web_pc = "ready"
    /\ web_call = NoWebCall
    /\ web_result = NoWebResult
    /\ web_calls = {}

\* One call of WebsiteValidator.validate_company_website.
ValidateWebsite ==
    /\ web_pc = "ready"
    /\ \E n \in SiteNames, c \in WebCompanies, d \in WebSolicitations,
          client \in BOOLEAN, installed \in BOOLEAN,
          a \in AiAlignments, caps \in AiCapabilities :
         LET out == validate_company_website(
                        [site |-> Sites[n], company_data |-> c,
                         solicitation_data |-> d, openai_client |-> client,
                         dependencies_installed |-> installed,
                         ai_alignment |-> a, ai_capabilities |-> caps])
         IN /\ web_call' = [site_name |-> n, company_data |-> c,
                            solicitation_data |-> d, openai_client |-> client,
                            dependencies_installed |-> installed]
            /\ web_result' = out.result
            /\ web_calls' = out.calls
    /\ web_pc' = "returned"
    /\ UNCHANGED << pipeVars, scoreVars, confirmVars, auxVars >>


(***************************************************************************)
(* Part 5.  Other entry points                                             *)
(***************************************************************************)
\* ---- confirm_single_company awaited directly (/api/confirm-selection) ----
SingleNames == {"", "Acme", "Beta LLC", "Gamma Corp"}

SingleReplies ==
    [kind : {"json"}, confidence_score : {-500, 0, 300, 790, 810, 900, 1500},
     is_confirmed : BOOLEAN,
     recommendation : {"proceed", "reconsider", "reject", ""}]
    \cup { [kind |-> k, confidence_score |-> 0, is_confirmed |-> FALSE,
            recommendation |-> ""] : k \in {"bad_json", "error"} }

NoSingle ==
    [called |-> FALSE, company_name |-> "",
     reply |-> [kind |-> "error", confidence_score |-> 0, is_confirmed |-> FALSE,
                recommendation |-> ""],
     result |-> NoConfirmation]

ConfirmSingle ==
    /\ ~single_call.called
    /\ \E company_name \in SingleNames, reply \in SingleReplies :
         single_call' = [called |-> TRUE, company_name |-> company_name,
                         reply |-> reply,
                         result |-> confirm_single_company(company_name, reply)]
    /\ UNCHANGED << pipeVars, scoreVars, confirmVars, webVars, mwc_call, crawl,
                    dedup_call >>

\* ---- samples of the scoring inputs ----
SampleSolicitations ==
    { sol \in Solicitations :
        /\ sol.set_asides \in { {}, {"Small Business"} }
        /\ sol.security_clearance \in {"", "Secret"}
        /\ sol.raw_text = "text"
        /\ sol.text_scores["capabilities"] = 500 }

SampleCompanies ==
    { comp \in Companies :
        /\ comp.employees_known /\ comp.employees = 10 /\ comp.size = "Small"
        /\ comp.security_clearances /= {"TS/SCI"} }

\* ---- /api/match-with-confirmation, for one candidate ----
\* What confirmation_result.website_validation can hold: nothing, or the
\* fields of a WebsiteValidationResult that the endpoint reads.  Scores are
\* thousandths.
NoWebsiteValidation ==
    [present |-> FALSE, website_accessible |-> FALSE, content_validated |-> FALSE,
     content_verified |-> FALSE, overall_alignment_score |-> 0,
     hallucination_penalty |-> 0]

WebsiteValidations ==
    { NoWebsiteValidation,
      [NoWebsiteValidation EXCEPT !.present = TRUE],
      [NoWebsiteValidation EXCEPT !.present = TRUE, !.website_accessible = TRUE] }
    \cup
    { [present |-> TRUE, website_accessible |-> TRUE, content_validated |-> TRUE,
       content_verified |-> TRUE, overall_alignment_score |-> a,
       hallucination_penalty |-> h] :
      a \in {0, 250, 500, 800, 1000}, h \in {0, 500} }

\* Lines 1978-2024: the match score (millionths) after the website-based
\* adjustment.
adjusted_match_score(match_score, website_validation, has_website) ==
    IF website_validation.present /\ website_validation.website_accessible
    THEN IF website_validation.content_validated
            /\ website_validation.content_verified
         THEN LET website_alignment_score ==
                      website_validation.overall_alignment_score
                  website_boost == (website_alignment_score - 500) * 200
                  a0 == Max(0, Min(1000000, match_score + website_boost))
                  a1 == IF website_alignment_score >= 800
                        THEN Min(1000000, a0 + 50000)
                        ELSE IF website_alignment_score < 300
                        THEN Max(0, a0 - 100000)
                        ELSE a0
              IN IF website_validation.hallucination_penalty > 0
                 THEN Max(0, a1 - website_validation.hallucination_penalty * 300)
                 ELSE a1
         ELSE (match_score * 70) \div 100
    ELSE IF ~has_website
    THEN (match_score * 90) \div 100
    ELSE (match_score * 95) \div 100

NoMatchConfirm ==
    [called |-> FALSE, sol |-> NoCall.sol, comp |-> NoCall.comp,
     website_validation |-> NoWebsiteValidation, raised |-> "",
     returned |-> FALSE, match_score |-> 0, original_match_score |-> 0]

\* The candidate has a valid website URL (the early filter passed); the
\* first-page check at the end decides whether it is returned.
MatchWithConfirmation ==
    /\ ~mwc_call.called
    /\ \E sol \in SampleSolicitations, comp \in SampleCompanies,
          website_validation \in WebsiteValidations, url_has_content \in BOOLEAN :
         LET scored == score(weights, sol, comp) IN
         mwc_call' =
             [called |-> TRUE, sol |-> sol, comp |-> comp,
              website_validation |-> website_validation,
              raised |-> scored.raised,
              returned |-> scored.raised = "" /\ url_has_content,
              match_score |->
                  IF scored.raised = ""
                  THEN adjusted_match_score(scored.total, website_validation, TRUE)
                  ELSE 0,
              original_match_score |-> scored.total]
    /\ UNCHANGED << pipeVars, scoreVars, confirmVars, webVars, single_call, crawl,
                    dedup_call >>

\* ---- _deep_crawl_website, one loop iteration at a time ----
\* A URL is << host, path >>.  A site gives, for each path of the company's
\* host, the anchors of the page (absolute, fragments and queries removed)
\* and whether the server redirects the request to another host.
START_HOST == "co.example"

OTHER_HOST == "www.other.example"

CrawlPaths == {"/", "/about", "/b", "/c"}

start_url == << START_HOST, "/" >>

priority_keywords == {"/about"}

LinkGraphs ==
    { [p \in CrawlPaths |->
          CASE p = "/"      -> << << START_HOST, "/b" >>, << START_HOST, "/about" >>,
                                  << START_HOST, "/" >> >>
            [] p = "/about" -> << << START_HOST, "/" >>, << START_HOST, "/b" >>,
                                  << START_HOST, "/about" >> >>
            [] p = "/b"     -> << << START_HOST, "/c" >>, << START_HOST, "/" >> >>
            [] OTHER        -> << << START_HOST, "/" >> >>],
      [p \in CrawlPaths |->
          CASE p = "/"      -> << << OTHER_HOST, "/" >>, << START_HOST, "/b" >>,
                                  << START_HOST, "/b" >> >>
            [] p = "/b"     -> << << OTHER_HOST, "/c" >>, << START_HOST, "/c" >> >>
            [] p = "/c"     -> << << START_HOST, "/about" >> >>
            [] OTHER        -> << >>] }

CrawlSites ==
    [anchors : LinkGraphs, redirects : { {}, {"/"}, {"/b"} }]

CrawlMaxPages == {1, 2, 3}

CrawlMaxDepth == {0, 1, 2}

RECURSIVE Dedup(_)
Dedup(s) ==
    IF s = << >> THEN << >>
    ELSE LET front == Dedup(SubSeq(s, 1, Len(s) - 1))
             last == s[Len(s)]
         IN IF \E i \in DOMAIN front : front[i] = last
            THEN front ELSE Append(front, last)

\* Lines 407-439: same-host anchors, each once, the priority pages first.
_extract_internal_links(anchors, base_host) ==
    LET links == Dedup(SelectSeq(anchors, LAMBDA u : u[1] = base_host))
        priority_links == SelectSeq(links, LAMBDA l : l[2] \in priority_keywords)
        other_links == SelectSeq(links, LAMBDA l : l[2] \notin priority_keywords)
    IN Prefix(priority_links, 5) \o Prefix(other_links, 10)

FetchOutcomes == {"ok", "status", "timeout", "thin"}

NoCrawl ==
    [pc |-> "idle", site |-> [anchors |-> [p \in CrawlPaths |-> << >>],
                              redirects |-> {}],
     max_pages |-> 0, max_depth |-> 0, urls_to_visit |-> << >>,
     visited_urls |-> {}, pages_data |-> << >>]

CrawlStart(site, mp, md) ==
    [pc |-> "loop", site |-> site, max_pages |-> mp, max_depth |-> md,
     urls_to_visit |-> << << start_url, 0 >> >>, visited_urls |-> {},
     pages_data |-> << >>]

\* Lines 324-381: one evaluation of the loop condition and, if it holds, one
\* pass through the loop body; outcome is what the request for the page
\* gives.  With follow_redirects the response is that of the final URL.
crawl_step(c, outcome) ==
    IF c.urls_to_visit = << >> \/ Len(c.pages_data) >= c.max_pages
    THEN [c EXCEPT !.pc = "done"]
    ELSE
    LET current_url == Head(c.urls_to_visit)[1]
        depth == Head(c.urls_to_visit)[2]
        popped == [c EXCEPT !.urls_to_visit = Tail(c.urls_to_visit)]
    IN
    IF current_url \in c.visited_urls \/ depth > c.max_depth THEN popped
    ELSE IF current_url[1] /= start_url[1] THEN popped
    ELSE IF outcome \in {"status", "timeout"} THEN popped
    ELSE
    LET seen == c.visited_urls \cup {current_url}
        response_url == IF current_url[2] \in c.site.redirects
                        THEN << OTHER_HOST, current_url[2] >>
                        ELSE current_url
        page_data == [url |-> response_url, depth |-> depth]
        links == _extract_internal_links(c.site.anchors[current_url[2]],
                                         start_url[1])
        fresh == SelectSeq(links, LAMBDA l : l \notin seen)
    IN
    IF outcome = "thin" THEN [popped EXCEPT !.visited_urls = seen]
    ELSE [popped EXCEPT
             !.visited_urls = seen,
             !.pages_data = Append(c.pages_data, page_data),
             !.urls_to_visit =
                 IF depth < c.max_depth
                 THEN Tail(c.urls_to_visit)
                      \o [i \in 1..Len(fresh) |-> << fresh[i], depth + 1 >>]
                 ELSE Tail(c.urls_to_visit)]

CrawlStep ==
    /\ crawl.pc = "loop"
    /\ \E outcome \in FetchOutcomes : crawl' = crawl_step(crawl, outcome)
    /\ UNCHANGED << pipeVars, scoreVars, confirmVars, webVars, single_call,
                    mwc_call, dedup_call >>

\* ---- ThemeBasedSearch._deduplicate_companies ----
\* A found company is a dictionary with a name, the source that found it
\* ("" when it names none) and a confidence; the "sources" key exists only
\* once the function has set it.
MaxCompanies == 3

FoundNames == {"Acme", "ACME ", "Beta", " "}

FoundSources == {"", "chatgpt", "web"}

FoundCompanies ==
    [name : FoundNames, source : FoundSources, confidence : {300, 900},
     has_sources : {FALSE}, sources : { {} }]

\* str.lower().strip() on the names of the model.
NameKey(name) ==
    CASE name = "Acme"  -> "acme"
      [] name = "ACME " -> "acme"
      [] name = "Beta"  -> "beta"
      [] OTHER          -> ""

\* Lines 381-394: merge one more record into the one already seen.
MergeInto(existing, company) ==
    LET existing_sources == IF existing.has_sources THEN existing.sources ELSE {}
        appended == IF company.source /= ""
                    THEN existing_sources \cup {company.source}
                    ELSE existing_sources
    IN [existing EXCEPT
           !.has_sources = TRUE,
           !.sources = appended,
           !.confidence = Max(existing.confidence, company.confidence),
           !.source = IF existing.source = "" THEN company.source ELSE @]

\* Lines 369-398.  seen is the dictionary in insertion order; a first
\* occurrence is stored as a copy, and the "sources" key of line 397 is set
\* on the caller's record, after the copy was taken.
RECURSIVE DedupLoop(_, _)
DedupLoop(companies, seen) ==
    IF companies = << >> THEN seen
    ELSE
    LET company == Head(companies)
        name == NameKey(company.name)
    IN
    IF name = "" THEN DedupLoop(Tail(companies), seen)
    ELSE IF \E i \in DOMAIN seen : NameKey(seen[i].name) = name
    THEN LET i == CHOOSE i \in DOMAIN seen : NameKey(seen[i].name) = name
         IN DedupLoop(Tail(companies),
                      [seen EXCEPT ![i] = MergeInto(seen[i], company)])
    ELSE DedupLoop(Tail(companies), Append(seen, company))

_deduplicate_companies(companies) == DedupLoop(companies, << >>)

NoDedup == [called |-> FALSE, companies |-> << >>, result |-> << >>]

DedupInputs ==
    UNION { [1..n -> FoundCompanies] : n \in 0..MaxCompanies }

Deduplicate ==
    /\ ~dedup_call.called
    /\ dedup_call' = [dedup_call EXCEPT
                         !.called = TRUE,
                         !.result = _deduplicate_companies(dedup_call.companies)]
    /\ UNCHANGED << pipeVars, scoreVars, confirmVars, webVars, single_call,
                    mwc_call, crawl >>

AuxIdle ==
    /\ single_call = NoSingle
    /\ mwc_call = NoMatchConfirm
    /\ crawl = NoCrawl
    /\ dedup_call = NoDedup

(***************************************************************************)
(* Specifications                                                          *)
(***************************************************************************)
PipelineNext ==
    \/ Request
    \/ \E i \in Idx : StartWorker(i)
    \/ \E i \in Idx : WorkerReturn(i)
    \/ Tick
    \/ Gather
    \/ BatchTimeout
    \/ Combine
    \/ ValidateUrls
    \/ Respond

Init == PipelineInit /\ ScoreIdle /\ ConfirmInit /\ WebIdle /\ AuxIdle

Next == PipelineNext

Spec == Init /\ [][Next]_vars

\* What the scheduling guarantees: the executor starts a queued task when a
\* thread is free, time passes, and the timers of wait_for fire (the 90 s
\* deadline of a task, the batch deadline).  The provider need never answer.
Fairness ==
    /\ WF_vars(Tick)
    /\ WF_vars(BatchTimeout)
    /\ \A i \in 1..initial_request_count(MaxTopK) :
          /\ WF_vars(i \in Idx /\ StartWorker(i))
          /\ WF_vars(i \in Idx /\ WorkerReturnOn(i, {"timeout"}, ProviderReplies))

SpecFair == Init /\ [][Next]_vars /\ Fairness

PipelineIdle == PipelineInit /\ ~chatgpt_available

InitScore == PipelineIdle /\ ScoreInit /\ ConfirmInit /\ WebIdle /\ AuxIdle

NextScore == Score

SpecScore == InitScore /\ [][NextScore]_vars

\* ---- the weights endpoint followed by a scoring call ----
NextWeights == PutWeights \/ ScoreOn(SampleSolicitations, SampleCompanies)

SpecWeights == InitScore /\ [][NextWeights]_vars

InitConfirm == PipelineIdle /\ ScoreIdle /\ ConfirmInit /\ WebIdle /\ AuxIdle

NextConfirm == ConfirmMatch \/ Validate

SpecConfirm == InitConfirm /\ [][NextConfirm]_vars

\* ---- two validate runs on the same arguments ----
FewEnrichments ==
    { e \in EnrichmentData :
        \A src \in Sources \ {"usaspending", "hubspot"} : e[src] = Absent }

InitRerun ==
    /\ PipelineIdle /\ ScoreIdle /\ WebIdle /\ AuxIdle
    /\ ConfirmStart /\ hash_seed \in HashSeeds

NextRerun == ConfirmMatchOn(FewEnrichments) \/ Validate \/ Revalidate \/ Restart

SpecRerun == InitRerun /\ [][NextRerun]_vars

InitWebsite == PipelineIdle /\ ScoreIdle /\ ConfirmInit /\ WebIdle /\ AuxIdle

NextWebsite == ValidateWebsite

SpecWebsite == InitWebsite /\ [][NextWebsite]_vars

InitSingle == PipelineIdle /\ ScoreIdle /\ ConfirmInit /\ WebIdle /\ AuxIdle

NextSingle == ConfirmSingle

SpecSingle == InitSingle /\ [][NextSingle]_vars

NextMatchConfirm == MatchWithConfirmation

\* ---- the crawl loop; each iteration ends (every request has a timeout) ----
InitCrawl ==
    /\ PipelineIdle /\ ScoreIdle /\ ConfirmInit /\ WebIdle
    /\ single_call = NoSingle
    /\ mwc_call = NoMatchConfirm
    /\ dedup_call = NoDedup
    /\ \E site \in CrawlSites, mp \in CrawlMaxPages, md \in CrawlMaxDepth :
          crawl = CrawlStart(site, mp, md)

NextCrawl == CrawlStep

SpecCrawl == InitCrawl /\ [][NextCrawl]_vars /\ WF_vars(CrawlStep)

\* ---- one call of _deduplicate_companies ----
InitDedup ==
    /\ PipelineIdle /\ ScoreIdle /\ ConfirmInit /\ WebIdle
    /\ single_call = NoSingle
    /\ mwc_call = NoMatchConfirm
    /\ crawl = NoCrawl
    /\ \E companies \in DedupInputs :
          dedup_call = [NoDedup EXCEPT !.companies = companies]

NextDedup == Deduplicate

SpecDedup == InitDedup /\ [][NextDedup]_vars

SpecMatchConfirm == InitSingle /\ [][NextMatchConfirm]_vars

\* ---- a run with more candidates than pool threads ----
\* The request asks for MaxPoolTopK companies, the search returns
\* initial_request_count of them, all with a working website, and the
\* provider is down: every confirmation call raises at once.
MaxPoolTopK == 8

CandidateNames ==
    << "c01", "c02", "c03", "c04", "c05", "c06", "c07", "c08", "c09", "c10",
       "c11", "c12", "c13", "c14", "c15", "c16" >>

LargeSearch ==
    [i \in 1..initial_request_count(MaxPoolTopK) |->
        [name |-> CandidateNames[i], relevance_score |-> 900 - 10 * i,
         website |-> "ok.com"]]

\* The state full_pipeline is in when it has submitted the tasks of
\* LargeSearch (lines 2212-2487).
PoolInit ==
    LET filtered == WebsiteFilter(LargeSearch)
        sorted   == StableSortDesc(filtered, RelevanceKeys(filtered))
        toconf   == ConfirmationFilter(sorted)
        n        == Len(toconf)
    IN
    /\ pc = "confirming"
    /\ top_k = MaxPoolTopK
    /\ request = [top_k |-> MaxPoolTopK, company_type |-> "for-profit",
                  company_size |-> "small", raw_text_len |-> 60,
                  search_found |-> Len(LargeSearch)]
    /\ chatgpt_available = TRUE
    /\ search_results = sorted
    /\ companies_to_confirm = toconf
    /\ worker = [i \in 1..n |-> "queued"]
    /\ fut = [i \in 1..n |-> "pending"]
    /\ task_result = [i \in 1..n |-> NoConfirmation]
    /\ confirmation_results = << >>
    /\ combined_results = << >>
    /\ companies_filtered = 0
    /\ response = [status |-> 0, results |-> << >>, companies_evaluated |-> 0,
                   error |-> ""]
    /\ clock = 0
    /\ started_at = [i \in 1..n |-> 0]
    /\ batch_timed_out = FALSE

ProviderDown == { r \in ProviderReplies : r.kind = "error" }

InitPool == PoolInit /\ ScoreIdle /\ ConfirmInit /\ WebIdle /\ AuxIdle

NextPool ==
    \/ \E i \in Idx : StartWorker(i)
    \/ \E i \in Idx : WorkerReturnOn(i, {"exception"}, ProviderDown)
    \/ Gather
    \/ Combine
    \/ ValidateUrls
    \/ Respond

SpecPool == InitPool /\ [][NextPool]_vars

(***************************************************************************)
(* Properties of full_pipeline                                             *)
(***************************************************************************)
TIMEOUT_REASONING == "Confirmation timed out after 90 seconds"

ResultNames == { response.results[i].company_name : i \in DOMAIN response.results }

Returned200 == pc = "returned" /\ response.status = 200

PassingCandidates ==
    { i \in DOMAIN search_results :
        quick_validate_website_url(search_results[i].website) }

C5_MatchScoreInUnitInterval ==
    \A i \in DOMAIN response.results :
        /\ response.results[i].match_score >= 0
        /\ response.results[i].match_score <= 1000

\* C6: once the batch deadline has expired the request still goes on to a
\* response, and every candidate whose confirmation had not finished carries
\* the timed-out placeholder (confidence 0.5, reasoning naming the timeout).
C6_BatchDeadlinePlaceholders ==
    batch_timed_out =>
        /\ pc \in {"gathered", "combined", "validated", "returned"}
        /\ \A i \in DOMAIN fut :
              fut[i] = "cancelled" =>
                  /\ i \in DOMAIN confirmation_results
                  /\ confirmation_results[i].kind = "dict"
                  /\ confirmation_results[i].confidence_score = 500
                  /\ confirmation_results[i].reasoning = TIMEOUT_REASONING

C8_FailureIsolation ==
    /\ pc /= "aborted"
    /\ pc \in {"gathered", "combined", "validated", "returned"} =>
          \A i \in DOMAIN confirmation_results :
              worker[i] \in {"completed", "timed_out", "failed"} =>
                  confirmation_results[i] = task_result[i]

(***************************************************************************)
(* Properties of MatchingEngine.score                                      *)
(***************************************************************************)
HardConstraintUnmet ==
    \/ ~_meets_set_aside(score_call.comp, score_call.sol.set_asides)
    \/ ~_meets_clearance(score_call.comp, score_call.sol.security_clearance)

ScoreReturned == score_call.called /\ score_result.raised = ""

UncappedTotal == WeightedTotal(weights, score_call.sol, score_call.comp)

\* C2: when the candidate misses a required set-aside or the required
\* clearance the returned total is at most 0.49, it is the weighted sum cut
\* at 0.49 (the cap comes after the sum), and the returned total is never
\* above what the computation returns without the cap.
C2_HardCapAfterWeightedSum ==
    ScoreReturned =>
        /\ score_result.total <= ClampUnit(UncappedTotal)
        /\ HardConstraintUnmet =>
              /\ score_result.total <= 490000
              /\ score_result.total = ClampUnit(Min(UncappedTotal, 490000))

C2_Witness ==
    /\ ScoreReturned
    /\ HardConstraintUnmet
    /\ UncappedTotal > 1000000
    /\ score_result.total = 490000

(***************************************************************************)
(* Properties of confirm_match and validate                                *)
(***************************************************************************)
FactorIdx == DOMAIN confirmation_result.factors

ComponentIdx == DOMAIN validation_result.score_components

InUnit(x) == x >= 0 /\ x <= 1000

\* C3: if any factor of a confirm_match result has status contradicted, the
\* overall status of that result is contradicted.
C3_ContradictedFactorContradictsOverall ==
    confirm_pc /= "ready" =>
        ((\E i \in FactorIdx : confirmation_result.factors[i].status = "contradicted")
            => confirmation_result.overall_status = "contradicted")

C3_Witness ==
    /\ confirm_pc = "confirmed"
    /\ \E i \in FactorIdx : confirmation_result.factors[i].status = "contradicted"
    /\ Cardinality({ i \in FactorIdx :
           confirmation_result.factors[i].status = "confirmed" }) >= 4
    /\ confirmation_result.overall_status = "contradicted"

\* C4: for a match score in [0,1], every factor confidence, the overall
\* confirmation confidence, each of the five validation component scores and
\* the composite validation score lie in [0,1] (0..1000 thousandths).
C4_ScoresInUnitInterval ==
    /\ confirm_pc /= "ready" =>
          /\ Len(confirmation_result.factors) = 6
          /\ \A i \in FactorIdx : InUnit(confirmation_result.factors[i].confidence)
          /\ InUnit(confirmation_result.overall_confidence)
    /\ confirm_pc = "validated" =>
          /\ Len(validation_result.score_components) = 5
          /\ \A i \in ComponentIdx : InUnit(validation_result.score_components[i].score)
          /\ InUnit(validation_result.validation_score)

C4_Witness ==
    /\ confirm_pc = "validated"
    /\ InUnit(confirm_call.match_result.score)
    /\ PastPerformanceFindings(confirm_call.company_data,
                               confirm_call.solicitation_data,
                               confirm_call.enrichment_data).confidence > 1000
    /\ confirmation_result.factors[1].confidence = 1000
    /\ validation_result.score_components[5].score = 1000

(***************************************************************************)
(* Properties of validate_company_website                                  *)
(***************************************************************************)
\* The pages the crawl of the called site collected.
CrawledPages == CrawlLoop(Sites[web_call.site_name], << << "/", 0 >> >>, {}, << >>)

\* The call crawled a reachable website and the crawled content failed
\* _validate_content_quality.
GateFailed ==
    /\ web_pc = "returned"
    /\ web_call.company_data.website /= ""
    /\ web_call.dependencies_installed
    /\ CrawledPages /= << >>
    /\ ~_validate_content_quality(_aggregate_crawled_data(CrawledPages))

\* C9: content that fails _validate_content_quality is never handed to the
\* generative alignment analysis nor to _detect_hallucinations, and the
\* returned result carries no confirmed capability and no alignment score
\* derived from it.
C9_RejectedContentNeverAnalysed ==
    GateFailed =>
        /\ "generative_alignment" \notin web_calls
        /\ "_detect_hallucinations" \notin web_calls
        /\ "_analyze_solicitation_alignment" \notin web_calls
        /\ web_result.confirmed_capabilities = {}
        /\ ~web_result.solicitation_alignment.present

\* A site with an AI client configured whose rejected text mentions a
\* capability the company claims.
C9_Witness ==
    /\ GateFailed
    /\ web_call.openai_client
    /\ web_call.site_name = "few_headings"
    /\ "cloud computing" \in web_call.company_data.capabilities

\* C10: when the crawled content of a reachable website fails the
\* minimum-content gate, validate_company_website returns the CONTENT NOT
\* VERIFIED result of _create_invalid_content_result.
C10_RejectedContentReportedNotVerified ==
    GateFailed => web_result = _create_invalid_content_result

(***************************************************************************)
(* Properties of the evidence bundles                                      *)
(***************************************************************************)
\* enrichment_data with every bundle whose error is set taken out.
WithoutErrored(enrichment_data) ==
    [src \in Sources |->
        IF enrichment_data[src].error THEN Absent ELSE enrichment_data[src]]

\* C11: a bundle whose error field is set adds no evidence and no confidence
\* to any of the six factors: the factors are those confirm_match computes
\* without that bundle.
C11_ErroredBundleContributesNothing ==
    confirm_pc /= "ready" =>
        confirmation_result.factors =
            confirm_match(confirm_call.company_data, confirm_call.solicitation_data,
                          confirm_call.match_result,
                          WithoutErrored(confirm_call.enrichment_data)).factors

(***************************************************************************)
(* Properties of the result order                                          *)
(***************************************************************************)
\* The place of a company in the search ranking (search_results after the
\* sort by relevance).
SearchRank(name) ==
    CHOOSE i \in DOMAIN search_results : search_results[i].name = name

\* C12: the returned results are in descending order of final score, and two
\* results with the same final score are in the order of the search ranking;
\* this is so after the website filter and the trim to top_k.
C12_ResultsSortedStable ==
    Returned200 =>
        \A i, j \in DOMAIN response.results :
            i < j =>
                /\ response.results[i].match_score >= response.results[j].match_score
                /\ response.results[i].match_score = response.results[j].match_score
                      => SearchRank(response.results[i].company_name)
                             < SearchRank(response.results[j].company_name)

\* Two results tie on the final score, behind a higher-ranked candidate that
\* the website check removed.
C12_Witness ==
    /\ Returned200
    /\ Len(response.results) = 2
    /\ response.results[1].match_score = response.results[2].match_score
    /\ companies_filtered > 0
    /\ \E i \in DOMAIN worker : worker[i] = "completed"

(***************************************************************************)
(* Properties of the confirmation pool                                     *)
(***************************************************************************)
Terminal == {"completed", "timed_out", "failed"}

\* C13: at most 10 confirmations run at any moment, and the task in place i
\* of the queue has left the queue only if at least i - 10 tasks before it
\* have reached their outcome.
C13_AtMostTenRunning ==
    /\ Cardinality(Running) <= 10
    /\ \A i \in Idx :
          worker[i] /= "queued" =>
              Cardinality({ j \in 1..(i - 1) : worker[j] \in Terminal }) >= i - 10

\* The pool is full, the eleventh task has started and the twelfth waits.
C13_Witness ==
    /\ Len(companies_to_confirm) > 11
    /\ Cardinality(Running) = 10
    /\ worker[11] = "running"
    /\ worker[12] = "queued"

NoEvidence == \A src \in Sources : confirm_call.enrichment_data[src] = Absent

\* C15: with no evidence from any provider confirm_match gives overall status
\* insufficient_data, and the validation level computed from that
\* confirmation is acceptable or lower.
C15_NoEvidenceInsufficientData ==
    (confirm_pc /= "ready" /\ NoEvidence) =>
        /\ confirmation_result.overall_status = "insufficient_data"
        /\ confirm_pc = "validated" =>
              validation_result.validation_level
                  \in {"acceptable", "marginal", "poor", "rejected"}

\* The priority rule for a factor's status: a contradiction first, then the
\* two confidence thresholds, then the absence of evidence.
PriorityRule(confidence, evidence, contradictions) ==
    IF contradictions > 0 THEN "contradicted"
    ELSE IF confidence >= 700 THEN "confirmed"
    ELSE IF confidence >= 400 THEN "partially_confirmed"
    ELSE IF evidence = 0 THEN "insufficient_data"
    ELSE "unconfirmed"

\* C16: each of the six factors of a confirmation has the status the
\* priority rule gives for its final confidence, evidence and contradictions:
\* contradicted when it has a contradiction; otherwise confirmed from 0.7,
\* partially confirmed from 0.4, insufficient data without evidence, and
\* unconfirmed in every other case.
C16_FactorsShareOneStatusRule ==
    confirm_pc /= "ready" =>
        \A i \in FactorIdx :
            LET f == confirmation_result.factors[i]
            IN f.status = PriorityRule(f.confidence, f.evidence, f.contradictions)

\* The total of the configured weights, in thousandths.
TotalWeight(w) == SumOver(DOMAIN w, w)

\* b is a with every weight multiplied so that the weights of b sum to 1.
RescaledToOne(a, b) ==
    /\ DOMAIN a = DOMAIN b
    /\ TotalWeight(b) = 1000
    /\ \A k \in DOMAIN a : a[k] * 1000 = b[k] * TotalWeight(a)

\* C17: when no hard cap applies the total that score returns is the
\* weighted sum of the factor scores divided by the total of the configured
\* weights (then cut to [0, 1]), and it equals the total that the same
\* weights rescaled to sum to 1 give for the same solicitation and company.
C17_TotalNormalisedByTotalWeight ==
    (ScoreReturned /\ ~HardConstraintUnmet /\ TotalWeight(weights) > 0) =>
        /\ score_result.total
              = ClampUnit((UncappedTotal * 1000) \div TotalWeight(weights))
        /\ \A b \in StoredWeights :
              RescaledToOne(weights, b) =>
                  score_result.total
                      = score(b, score_call.sol, score_call.comp).total

\* C18: a call of score never raises, whatever the solicitation dictionary
\* and the company record hold or lack: it returns a total in [0, 1].
C18_ScoreNeverRaises ==
    score_call.called =>
        /\ score_result.raised = ""
        /\ score_result.total \in 0..1000000

(***************************************************************************)
(* Properties of PUT /api/weights                                          *)
(***************************************************************************)
\* The body names a factor that does not exist or holds a value that is not
\* a number.
InvalidBody(body) ==
    \/ DOMAIN body \ WeightKeys /= {}
    \/ \E k \in DOMAIN body : ~body[k].numeric

\* C19: a PUT /api/weights whose body has an unknown factor name or a
\* non-numeric value is answered with a client error and nothing is saved:
\* the stored weights are those from before the request, and the scoring
\* call that follows computes with them.
C19_InvalidWeightsRejectedUnsaved ==
    (weights_call.called /\ InvalidBody(weights_call.body)) =>
        /\ weights_call.status \in 400..499
        /\ weights = weights_call.before
        /\ score_call.called =>
              score_result = score(weights_call.before, score_call.sol,
                                   score_call.comp)

C19_Witness ==
    /\ weights_call.called
    /\ "price" \in DOMAIN weights_call.body
    /\ weights_call.status = 400
    /\ weights = [k \in WeightKeys |-> IF k = "naics" THEN -500 ELSE 100]
    /\ score_call.called
    /\ score_result.raised = ""

(***************************************************************************)
(* Properties of the risk level                                            *)
(***************************************************************************)
RiskComponent == validation_result.score_components[4]

\* A recorded risk is about a missing required clearance, an unmet set-aside
\* requirement, or a contradiction that confirmation found in the past
\* performance factor.
ConcernsCriticalRisk ==
    LET risks == RiskComponent.risk_factors
        past_perf == confirmation_result.factors[1]
    IN \/ "required clearance not confirmed" \in risks
       \/ "set-aside requirement may not be met" \in risks
       \/ /\ risks \cap {"unverified or contradicted past performance",
                         "past performance contradictions"} /= {}
          /\ past_perf.contradictions > 0 \/ past_perf.status = "contradicted"

\* C20: the risk level is critical exactly when a recorded risk is about a
\* missing clearance, an unmet set-aside or a contradiction, or the risk
\* score is below 0.3; otherwise high below 0.5 or from five risks, medium
\* below 0.7 or from three risks, and low in every other case.
C20_RiskLevelLadder ==
    confirm_pc = "validated" =>
        LET risk_score == RiskComponent.score
            risk_count == Cardinality(RiskComponent.risk_factors)
        IN validation_result.risk_level =
              IF ConcernsCriticalRisk \/ risk_score < 300 THEN "critical"
              ELSE IF risk_score < 500 \/ risk_count >= 5 THEN "high"
              ELSE IF risk_score < 700 \/ risk_count >= 3 THEN "medium"
              ELSE "low"

(***************************************************************************)
(* Properties of repeated validation                                       *)
(***************************************************************************)
\* C21: two runs of validate on the same arguments return the same score,
\* level and risk level and the same lists of weaknesses, opportunities and
\* risks, element by element in the same order.
C21_ValidateDeterministic ==
    Len(swot_runs) = 2 => swot_runs[1] = swot_runs[2]

(***************************************************************************)
(* Properties of confirm_single_company                                    *)
(***************************************************************************)
\* C22: when the provider call fails, or its output cannot be parsed even
\* after the repair attempt, confirm_single_company raises nothing and
\* returns the fallback: not confirmed, recommendation reconsider,
\* confidence at most 0.3, and a reasoning that says the analysis was not
\* completed.
C22_ProviderFailureGivesFallback ==
    (/\ single_call.called
     /\ single_call.company_name /= ""
     /\ single_call.reply.kind \in {"error", "bad_json"}) =>
        /\ single_call.result.kind = "dict"
        /\ ~single_call.result.is_confirmed
        /\ single_call.result.recommendation = "reconsider"
        /\ single_call.result.confidence_score <= 300
        /\ single_call.result.reasoning
              \in {"Unable to complete full analysis", "Confirmation analysis failed"}

(***************************************************************************)
(* Properties of the request handling of full_pipeline                     *)
(***************************************************************************)
\* The request of test_full_pipeline_no_companies: raw_text "Test
\* solicitation" (17 characters), company_type for-profit, company_size
\* small and a valid top_k, with a search that returns no company.
IsNoCompaniesTestRequest ==
    /\ request.top_k \in 1..100
    /\ request.company_type = "for-profit"
    /\ request.company_size = "small"
    /\ request.raw_text_len = 17
    /\ request.search_found = 0

\* C23: a request whose search finds no candidate is answered with status
\* 200, an empty results list and companies_evaluated = 0, and so is the
\* request of the test.
C23_NoCandidatesAnswers200Empty ==
    (pc /= "idle" /\ request.search_found = 0
       /\ (InputError(request) = "" \/ IsNoCompaniesTestRequest)) =>
        /\ response.status = 200
        /\ response.results = << >>
        /\ response.companies_evaluated = 0

\* C26: a request with invalid input (top_k outside 1..100, an unknown
\* company_type or company_size, or fewer than 50 characters of text) is
\* answered with status 400 and the validation message.
C26_InvalidInputAnswers400 ==
    (pc /= "idle" /\ InputError(request) /= "") =>
        /\ response.status = 400
        /\ response.error = InputError(request)

(***************************************************************************)
(* Properties of /api/match-with-confirmation                              *)
(***************************************************************************)
MwcHardConstraintUnmet ==
    \/ ~_meets_set_aside(mwc_call.comp, mwc_call.sol.set_asides)
    \/ ~_meets_clearance(mwc_call.comp, mwc_call.sol.security_clearance)

\* C24: a returned candidate that misses a required set-aside or the
\* required clearance has a match_score of at most 0.49, whatever its
\* website alignment.
C24_WebsiteNeverLiftsCappedScore ==
    (mwc_call.returned /\ MwcHardConstraintUnmet) => mwc_call.match_score <= 490000

(***************************************************************************)
(* Properties of the gathered confirmation results                         *)
(***************************************************************************)
\* C25: whatever the order in which the workers finish, once the handler
\* has left the confirmation step, on the normal path and after the batch
\* deadline alike, confirmation_results has one entry per candidate of
\* companies_to_confirm, and entry i is the result of candidate i's task.
C25_ResultsAlignedWithCandidates ==
    pc \in {"gathered", "combined", "validated", "returned", "aborted"} =>
        /\ Len(confirmation_results) = Len(companies_to_confirm)
        /\ \A i \in DOMAIN confirmation_results :
              confirmation_results[i] = task_result[i]

(***************************************************************************)
(* Properties of the stored weights                                        *)
(***************************************************************************)
\* The last PUT /api/weights was accepted and its body was written.
PutStored ==
    /\ weights_call.called
    /\ weights_call.status = 200
    /\ weights = load_weights([k \in DOMAIN weights_call.body |->
                                  weights_call.body[k].v])

\* C27: after an accepted PUT /api/weights the stored configuration holds a
\* weight for each of the seven factors, and the scoring call that follows
\* completes without raising.
C27_AcceptedWeightsAreComplete ==
    PutStored =>
        /\ DOMAIN weights = WeightKeys
        /\ score_call.called => score_result.raised = ""

(***************************************************************************)
(* Properties of the crawl                                                 *)
(***************************************************************************)
CrawlBounded ==
    /\ Len(crawl.pages_data) <= crawl.max_pages
    /\ \A i \in DOMAIN crawl.pages_data :
          crawl.pages_data[i].depth <= crawl.max_depth

CrawlOnStartHost ==
    \A i \in DOMAIN crawl.pages_data :
        crawl.pages_data[i].url[1] = start_url[1]

CrawlTerminates == <>(crawl.pc = "done")

\* C28: for every link graph, cyclic ones included, and every pattern of
\* failing pages the crawl ends, and it has collected at most max_pages
\* pages, each at depth at most max_depth and on the host of the start URL.
C28_CrawlTerminatesWithinBounds ==
    /\ CrawlTerminates
    /\ [](CrawlBounded /\ CrawlOnStartHost)

(***************************************************************************)
(* Properties of the clearance factor and the clearance cap                *)
(***************************************************************************)
ClearanceFactor == _score_clearance(score_call.sol, score_call.comp)

\* Line 1400: the condition under which score applies the clearance cap.
ClearanceCapApplied ==
    ~_meets_clearance(score_call.comp, score_call.sol.security_clearance)

\* C29: in a call of score, a clearance factor of 1.0 for a required
\* clearance (the case in which "Required clearance available" is reported)
\* means the clearance cap is not applied, and an applied clearance cap means
\* the clearance factor is below 1.0.
C29_ClearanceFactorAgreesWithCap ==
    (score_call.called /\ score_result.raised = "") =>
        /\ (_norm(score_call.sol.security_clearance) /= ""
               /\ ClearanceFactor >= 1000) => ~ClearanceCapApplied
        /\ ClearanceCapApplied => ClearanceFactor < 1000

(***************************************************************************)
(* Properties of _deduplicate_companies                                    *)
(***************************************************************************)
DistinctNames ==
    { NameKey(dedup_call.companies[i].name) : i \in DOMAIN dedup_call.companies }
        \ {""}

OneRecordPerName ==
    /\ Len(dedup_call.result) = Cardinality(DistinctNames)
    /\ \A n \in DistinctNames :
          Cardinality({ j \in DOMAIN dedup_call.result :
                           NameKey(dedup_call.result[j].name) = n }) = 1

SourcesKept ==
    \A i \in DOMAIN dedup_call.companies :
        LET company == dedup_call.companies[i] IN
        (NameKey(company.name) /= "" /\ company.source /= "") =>
            \E j \in DOMAIN dedup_call.result :
                /\ NameKey(dedup_call.result[j].name) = NameKey(company.name)
                /\ dedup_call.result[j].has_sources
                /\ company.source \in dedup_call.result[j].sources

\* C30: the result of _deduplicate_companies has exactly one record for each
\* distinct non-empty name of the input (names compared in lower case and
\* trimmed), and the sources list of that record holds the source of every
\* input record with that name.
C30_OneRecordPerNameWithAllSources ==
    dedup_call.called => (OneRecordPerName /\ SourcesKept)

====
